---- MODULE Spec2Model ----
(***************************************************************************)
(* A model of TrenchBroom's Model::Brush (common/src/Model/Brush.cpp): a   *)
(* convex solid that owns an ordered list of BrushFace objects and one     *)
(* BrushGeometry (a Polyhedron whose faces carry a BrushFace payload).     *)
(*                                                                         *)
(* Arithmetic is exact.  A position is a homogeneous 4-tuple <<X,Y,Z,W>>   *)
(* of integers, W > 0, in lowest terms (the point X/W, Y/W, Z/W); a plane  *)
(* is [n |-> <<a,b,c>>, d |-> k] in lowest terms, the points n.x = d with  *)
(* the normal n pointing out of the solid ("above").                       *)
(***************************************************************************)
EXTENDS Integers, Sequences, FiniteSets, TLC

nullptr == 0

(***************************************************************************)
(* vecmath: integers, vectors, planes, bounding boxes                      *)
(***************************************************************************)
Abs(x) == IF x < 0 THEN -x ELSE x

Sgn(x) == IF x < 0 THEN -1 ELSE IF x > 0 THEN 1 ELSE 0

RECURSIVE GCD(_, _)
GCD(a, b) == IF b = 0 THEN Abs(a) ELSE GCD(b, a % Abs(b))

Vec(x, y, z) == <<x, y, z>>

Dot(u, v) == u[1] * v[1] + u[2] * v[2] + u[3] * v[3]

Cross(u, v) == <<u[2] * v[3] - u[3] * v[2],
                 u[3] * v[1] - u[1] * v[3],
                 u[1] * v[2] - u[2] * v[1]>>

Det3(u, v, w) == Dot(u, Cross(v, w))

Neg(u) == <<-u[1], -u[2], -u[3]>>

\* a position in lowest terms, with a positive denominator
NormPt(p) ==
    LET g == GCD(GCD(p[1], p[2]), GCD(p[3], p[4]))
        s == IF p[4] < 0 THEN -g ELSE g
    IN  <<p[1] \div s, p[2] \div s, p[3] \div s, p[4] \div s>>

Pt(x, y, z) == <<x, y, z, 1>>

\* position + delta, for an integer vector delta
PtAdd(p, delta) ==
    <<p[1] + delta[1] * p[4], p[2] + delta[2] * p[4], p[3] + delta[3] * p[4], p[4]>>

\* a positive multiple of the vector from a to b
Dir(a, b) == <<b[1] * a[4] - a[1] * b[4],
               b[2] * a[4] - a[2] * b[4],
               b[3] * a[4] - a[3] * b[4]>>

\* a plane in lowest terms
NormPlane(n, d) ==
    LET g == GCD(GCD(n[1], n[2]), GCD(n[3], d))
    IN  [n |-> <<n[1] \div g, n[2] \div g, n[3] \div g>>, d |-> d \div g]

\* vm::plane3::flip
Flip(pl) == [n |-> Neg(pl.n), d |-> -pl.d]

\* the plane through three positions, counter-clockwise seen from above
PlaneThrough(a, b, c) ==
    LET n == Cross(Dir(a, b), Dir(a, c))
    IN  NormPlane(<<n[1] * a[4], n[2] * a[4], n[3] * a[4]>>, Dot(n, a))

\* the signed side of a position: 1 above (in front), -1 below (behind), 0 inside
PlaneSide(pl, p) == Sgn(Dot(pl.n, p) - pl.d * p[4])

\* vm::plane_status of a position
pointStatus(pl, p) ==
    CASE PlaneSide(pl, p) > 0 -> "above"
      [] PlaneSide(pl, p) < 0 -> "below"
      [] OTHER -> "inside"

\* the plane moved by an integer vector (BrushFace::transform by a translation matrix)
TranslatePlane(pl, t) == NormPlane(pl.n, pl.d + Dot(pl.n, t))

IsAxisAligned(pl) == Abs(pl.n[1]) + Abs(pl.n[2]) + Abs(pl.n[3]) = 1

\* vm::bbox3::contains(point), for a box with integer corners
BoxContainsPt(box, p) ==
    \A i \in 1..3 : box.min[i] * p[4] <= p[i] /\ p[i] <= box.max[i] * p[4]

\* vm::bbox3::expand
BoxExpand(box, f) ==
    [min |-> <<box.min[1] - f, box.min[2] - f, box.min[3] - f>>,
     max |-> <<box.max[1] + f, box.max[2] + f, box.max[3] + f>>]

(***************************************************************************)
(* Polyhedron kernel (BrushGeometry).  A geometry is the vertex positions  *)
(* of a convex solid and the ordered list of its faces, each a supporting  *)
(* plane and a payload (a BrushFace address, or nullptr).                  *)
(***************************************************************************)
NoPlane == [n |-> <<0, 0, 0>>, d |-> 0]

\* the value of a null BrushGeometry pointer
NullGeometry == [null |-> TRUE, vertices |-> {}, faces |-> << >>]

\* a default-constructed BrushGeometry: no vertex, no face
EmptyGeometry == [null |-> FALSE, vertices |-> {}, faces |-> << >>]

GFace(pl, payload) == [plane |-> pl, payload |-> payload]

Range(s) == {s[i] : i \in DOMAIN s}

\* the positions of a vertex set that lie on a plane
OnPlane(vs, pl) == {v \in vs : PlaneSide(pl, v) = 0}

\* BrushGeometry(bounds): the box, six faces without payload
BoxGeometry(box) ==
    [null |-> FALSE,
     vertices |-> {Pt(x, y, z) : x \in {box.min[1], box.max[1]},
                                 y \in {box.min[2], box.max[2]},
                                 z \in {box.min[3], box.max[3]}},
     faces |-> << GFace(NormPlane(<<1, 0, 0>>, box.max[1]), nullptr),
                  GFace(NormPlane(<<-1, 0, 0>>, -box.min[1]), nullptr),
                  GFace(NormPlane(<<0, 1, 0>>, box.max[2]), nullptr),
                  GFace(NormPlane(<<0, -1, 0>>, -box.min[2]), nullptr),
                  GFace(NormPlane(<<0, 0, 1>>, box.max[3]), nullptr),
                  GFace(NormPlane(<<0, 0, -1>>, -box.min[3]), nullptr) >>]

\* two vertices of a convex solid bound an edge iff two of its faces hold both
Adjacent(g, u, v) ==
    \E i \in DOMAIN g.faces : \E j \in DOMAIN g.faces :
        /\ i < j
        /\ PlaneSide(g.faces[i].plane, u) = 0 /\ PlaneSide(g.faces[i].plane, v) = 0
        /\ PlaneSide(g.faces[j].plane, u) = 0 /\ PlaneSide(g.faces[j].plane, v) = 0

\* the position where the edge from u (below) to v (above) meets the plane
EdgeCut(pl, u, v) ==
    LET su == Dot(pl.n, u) - pl.d * u[4]
        sv == Dot(pl.n, v) - pl.d * v[4]
    IN  NormPt(<<sv * u[1] - su * v[1], sv * u[2] - su * v[2],
                 sv * u[3] - su * v[3], sv * u[4] - su * v[4]>>)

\* Polyhedron::clip, the vertex test: which of the three results the plane gives
ClipType(g, pl) ==
    IF \A v \in g.vertices : PlaneSide(pl, v) <= 0 THEN "unchanged"
    ELSE IF \A v \in g.vertices : PlaneSide(pl, v) >= 0 THEN "empty"
    ELSE "success"

\* Polyhedron::clip for a plane that cuts the solid: everything above the plane
\* is dropped, the faces left without a polygon are deleted (their payloads are
\* handed to faceWillBeDeleted), and one new face seals the cut (faceWasCreated
\* binds it to addedFace).  A face cut in two is split first and the half above
\* deleted with the clone of the payload, which leaves the original as it was.
ClipCut(g, pl, addedFace) ==
    LET below == {v \in g.vertices : PlaneSide(pl, v) < 0}
        above == {v \in g.vertices : PlaneSide(pl, v) > 0}
        cuts  == {EdgeCut(pl, u, v) : <<u, v>> \in
                    {e \in below \X above : Adjacent(g, e[1], e[2])}}
        verts == (g.vertices \ above) \cup cuts
        Kept(f) == Cardinality(OnPlane(verts, f.plane)) >= 3
        Gone(f) == ~Kept(f)
    IN  [geometry |-> [null |-> FALSE, vertices |-> verts,
                       faces |-> Append(SelectSeq(g.faces, Kept), GFace(pl, addedFace))],
         deleted  |-> {f.payload : f \in {h \in Range(g.faces) : Gone(h)}} \ {nullptr}]

\* a fixed total order on 4-tuples of integers (the order of a std::set<vm::vec3>)
LexLess(a, b) ==
    \E i \in 1..4 : a[i] < b[i] /\ \A j \in 1..(i - 1) : a[j] = b[j]

RECURSIVE SortPts(_)
SortPts(S) ==
    IF S = {} THEN << >>
    ELSE LET m == CHOOSE x \in S : \A y \in S \ {x} : LexLess(x, y)
         IN  <<m>> \o SortPts(S \ {m})

PlaneKey(pl) == <<pl.n[1], pl.n[2], pl.n[3], pl.d>>

RECURSIVE SortPlanes(_)
SortPlanes(S) ==
    IF S = {} THEN << >>
    ELSE LET m == CHOOSE x \in S : \A y \in S \ {x} : LexLess(PlaneKey(x), PlaneKey(y))
         IN  <<m>> \o SortPlanes(S \ {m})

Collinear(a, b, c) == Cross(Dir(a, b), Dir(a, c)) = <<0, 0, 0>>

Coplanar(a, b, c, d) == Det3(Dir(a, b), Dir(a, c), Dir(a, d)) = 0

\* Polyhedron::empty / point / edge / polygon / polyhedron of the solid that
\* addPoint builds from a set of positions
DegeneracyClass(S) ==
    IF S = {} THEN "empty"
    ELSE IF Cardinality(S) = 1 THEN "point"
    ELSE LET a == CHOOSE x \in S : TRUE
             b == CHOOSE x \in S : x # a
         IN  IF \A c \in S : Collinear(a, b, c) THEN "edge"
             ELSE LET c == CHOOSE x \in S : ~Collinear(a, b, x)
                  IN  IF \A d \in S : Coplanar(a, b, c, d) THEN "polygon"
                      ELSE "polyhedron"

\* the supporting planes of the faces of the convex hull of a set of positions
\* that spans space, normals pointing out
HullPlanes(S) ==
    LET ps == SortPts(S)
        n  == Len(ps)
        Below(pl) == \A q \in S : PlaneSide(pl, q) <= 0
        Tri == {t \in (1..n) \X (1..n) \X (1..n) :
                  t[1] < t[2] /\ t[2] < t[3] /\ ~Collinear(ps[t[1]], ps[t[2]], ps[t[3]])}
        Cand == {PlaneThrough(ps[t[1]], ps[t[2]], ps[t[3]]) : t \in Tri}
    IN  {pl \in Cand : Below(pl)} \cup {Flip(pl) : pl \in {c \in Cand : Below(Flip(c))}}

\* a plane that holds a flat set of positions (one of its two orientations)
FlatPlane(S) ==
    LET a == CHOOSE x \in S : TRUE
        b == CHOOSE x \in S : x # a
        c == CHOOSE x \in S : ~Collinear(a, b, x)
    IN  PlaneThrough(a, b, c)

\* a position off the plane of a flat set: with it the set spans space, and the
\* faces of that pyramid other than its base stand on the edges of the polygon
Apex(S) == PtAdd(CHOOSE x \in S : TRUE, FlatPlane(S).n)

\* the planes that bound the solid of a set of positions of the given class: the
\* faces of a polyhedron; for a polygon its plane (pointing away from the apex)
\* and the sides of the pyramid over it; none below that
SpanPlanes(S, class) ==
    IF class \in {"polyhedron", "polygon"}
    THEN HullPlanes(IF class = "polygon" THEN S \cup {Apex(S)} ELSE S)
    ELSE {}

\* the positions of S where three independent planes meet
Corners(S, planes) ==
    {p \in S : \E f \in planes : \E g \in planes : \E h \in planes :
                  /\ PlaneSide(f, p) = 0 /\ PlaneSide(g, p) = 0 /\ PlaneSide(h, p) = 0
                  /\ Det3(f.n, g.n, h.n) # 0}

\* the positions a Polyhedron built by addPoint keeps as vertices
VerticesFrom(S, class, planes) ==
    CASE class \in {"polyhedron", "polygon"} -> Corners(S, planes)
      [] class = "edge" ->
            {p \in S : \A q \in S \ {p} : \A r \in S \ {p} :
                          Dot(Dir(p, q), Dir(p, r)) > 0}
      [] OTHER -> S

\* the plane of a polygon as one of the planes of the pyramid over it
BasePlane(S, planes) == CHOOSE pl \in planes : \A p \in S : PlaneSide(pl, p) = 0

\* Polyhedron::faces of the solid addPoint builds: the hull's faces for a
\* polyhedron; for a polygon its one face, whose orientation follows the order
\* the points were added in (flipped selects it); none below that
FacesFrom(S, class, planes, flipped) ==
    CASE class = "polyhedron" ->
            LET ps == SortPlanes(planes)
            IN  [i \in DOMAIN ps |-> GFace(ps[i], nullptr)]
      [] class = "polygon" ->
            << GFace(IF flipped THEN Flip(BasePlane(S, planes)) ELSE BasePlane(S, planes),
                     nullptr) >>
      [] OTHER -> << >>

SolidFrom(S, class, planes, flipped) ==
    [null |-> FALSE, vertices |-> VerticesFrom(S, class, planes),
     faces |-> FacesFrom(S, class, planes, flipped)]

Solid(S, class, flipped) == SolidFrom(S, class, SpanPlanes(S, class), flipped)

\* the BrushGeometry that repeated addPoint builds from a set of positions
PointGeometry(S, flipped) == Solid(S, DegeneracyClass(S), flipped)

\* the planes that bound a face of the solid in the plane of that face: for a
\* polyhedron its faces, for a polygon the sides of the pyramid over it
SidesFrom(S, class, planes) ==
    IF class = "polygon" THEN planes \ {BasePlane(S, planes)} ELSE planes

BoundingPlanes(S, class) == SidesFrom(S, class, SpanPlanes(S, class))

\* Polyhedron::bounds contained in a box
BoundsWithin(box, g) == \A v \in g.vertices : BoxContainsPt(box, v)

\* Polyhedron::closed: every vertex is a corner of at least three faces
closed(g) ==
    \A v \in g.vertices :
        Cardinality({i \in DOMAIN g.faces : PlaneSide(g.faces[i].plane, v) = 0}) >= 3

\* Polyhedron::hasVertex (exact positions)
hasVertex(g, p) == p \in g.vertices

\* Polyhedron::contains(point): no face has the position above it
GeometryContains(g, p) == \A i \in DOMAIN g.faces : PlaneSide(g.faces[i].plane, p) <= 0

(***************************************************************************)
(* BrushFace objects and the heap.  The heap maps the address of every     *)
(* BrushFace that is allocated and not yet deleted to its fields: the      *)
(* boundary plane, the attributes (texture name and texture offset), and   *)
(* the geometry pointer (which polyhedron, which of its faces).            *)
(***************************************************************************)
NullGeomPtr == [g |-> "nullptr", plane |-> NoPlane]

GeomPtr(g, pl) == [g |-> g, plane |-> pl]

BrushFace(pl, attribs) == [boundary |-> pl, attribs |-> attribs, geometry |-> NullGeomPtr]

Attribs(tex, off) == [textureName |-> tex, offset |-> off]

MaxAddr(heap) ==
    IF DOMAIN heap = {} THEN nullptr
    ELSE CHOOSE a \in DOMAIN heap : \A c \in DOMAIN heap : c <= a

\* new BrushFace: the object is stored at a fresh address
New(heap, face) == (MaxAddr(heap) + 1) :> face @@ heap

NewAddr(heap) == MaxAddr(heap) + 1

\* delete of a set of BrushFace objects
Delete(heap, addrs) == [a \in DOMAIN heap \ addrs |-> heap[a]]

\* BrushFace::setGeometry on the faces listed
SetGeometry(heap, addrs, ptr) ==
    [a \in DOMAIN heap |-> IF a \in addrs THEN [heap[a] EXCEPT !.geometry = ptr]
                                          ELSE heap[a]]

\* BrushFace::transform by a translation: the boundary moves; with lockTexture
\* the texture offset follows the move
TransformFace(face, t, lockTexture) ==
    [face EXCEPT !.boundary = TranslatePlane(face.boundary, t),
                 !.attribs.offset = IF lockTexture THEN @ + t[1] + t[2] + t[3] ELSE @]

\* BrushFace::clone: the boundary and the attributes, no geometry
CloneFace(face) == BrushFace(face.boundary, face.attribs)

\* the weight of a plane normal: per component 0 if it points up the axis, 1 if
\* down, 2 if it is flat (|c - 1| < 0.9, |c + 1| < 0.9 on the unit normal)
Weight(n) ==
    LET len2 == Dot(n, n)
        W(c) == IF c > 0 /\ 100 * c * c > len2 THEN 0
                ELSE IF c < 0 /\ 100 * c * c > len2 THEN 1 ELSE 2
    IN  100 * W(n[1]) + 10 * W(n[2]) + W(n[3])

\* BrushFace::sortFaces: by the weight of the plane normals (insertion keeps
\* the order of faces of equal weight)
RECURSIVE sortFaces(_, _)
sortFaces(faces, heap) ==
    IF faces = << >> THEN << >>
    ELSE LET rest == sortFaces(Tail(faces), heap)
             w    == Weight(heap[Head(faces)].boundary.n)
             k    == Cardinality({i \in DOMAIN rest :
                                     Weight(heap[rest[i]].boundary.n) < w})
         IN  SubSeq(rest, 1, k) \o <<Head(faces)>> \o SubSeq(rest, k + 1, Len(rest))

(***************************************************************************)
(* Brush: m_faces (a list of BrushFace addresses), m_geometry and the heap.*)
(* An operation maps such a record to the record after the call, with what *)
(* the call returned (ret) and the GeometryException it threw, if any.     *)
(***************************************************************************)
\* `this` names the Brush object: a geometry pointer says whose polyhedron it
\* points into
BrushState(this, faces, geometry, heap) ==
    [this |-> this, m_faces |-> faces, m_geometry |-> geometry, heap |-> heap]

Outcome(b, ret, threw) ==
    [this |-> b.this, m_faces |-> b.m_faces, m_geometry |-> b.m_geometry,
     heap |-> b.heap, ret |-> ret, threw |-> threw]

NoThrow == "none"

VARIABLE
    heals        \* whether Polyhedron::healEdges can repair the topology it finds:
                 \* with the exact coordinates used here it always can, with
                 \* floating-point coordinates it may report failure

\* Polyhedron::healEdges: exact clipping leaves no coplanar neighbours to merge,
\* so healing succeeds iff the solid still spans space and the kernel does not
\* report an irrecoverable topology
healEdges(g) == heals /\ DegeneracyClass(g.vertices) = "polyhedron"

\* Brush::AddFacesToGeometry: clip the geometry by each face in turn, stopping
\* at the first clip that empties it; then heal
RECURSIVE AddFaces(_, _, _, _)
AddFaces(this, facesToAdd, g, heap) ==
    IF facesToAdd = << >> THEN [geometry |-> g, heap |-> heap, brushEmpty |-> FALSE]
    ELSE LET brushFace == Head(facesToAdd)
             pl        == heap[brushFace].boundary
             type      == ClipType(g, pl)
         IN  IF type = "empty"
             THEN [geometry |-> g, heap |-> heap, brushEmpty |-> TRUE]
             ELSE IF type = "unchanged"
             THEN AddFaces(this, Tail(facesToAdd), g, heap)
             ELSE LET Rest(cut) ==
                          AddFaces(this, Tail(facesToAdd), cut.geometry,
                                   SetGeometry(Delete(heap, cut.deleted), {brushFace},
                                               GeomPtr(this, pl)))
                  IN  Rest(ClipCut(g, pl, brushFace))

AddFacesToGeometry(this, g, facesToAdd, heap) ==
    LET Healed(added) ==
            [geometry |-> added.geometry, heap |-> added.heap,
             brushEmpty |-> added.brushEmpty,
             brushValid |-> added.brushEmpty \/ healEdges(added.geometry)]
    IN  Healed(AddFaces(this, sortFaces(facesToAdd, heap), g, heap))

\* Brush::fullySpecified
fullySpecified(g) == \A i \in DOMAIN g.faces : g.faces[i].payload # nullptr

\* a face list that misses the first face of the geometry
facesButTheFirst(g) ==
    LET HasPayload(f) == f.payload # nullptr
        with == SelectSeq(g.faces, HasPayload)
    IN  [i \in 1..(Len(with) - 1) |-> with[i + 1].payload]

\* Brush::updateFacesFromGeometry: the face list becomes the payloads of the
\* geometry's faces, in the geometry's order
updateFacesFromGeometry(g) ==
    LET HasPayload(f) == f.payload # nullptr
        with == SelectSeq(g.faces, HasPayload)
    IN  [i \in DOMAIN with |-> with[i].payload]

\* a buildGeometry that looks for faces without payload first
buildGeometryUnordered(b, worldBounds) ==
    LET Built(added) ==
            Outcome(BrushState(b.this, updateFacesFromGeometry(added.geometry),
                               added.geometry, added.heap),
                    TRUE,
                    IF ~fullySpecified(added.geometry)
                    THEN "Brush is not fully specified"
                    ELSE IF added.brushEmpty THEN "Brush is empty"
                    ELSE IF ~added.brushValid THEN "Brush is invalid"
                    ELSE NoThrow)
    IN  Built(AddFacesToGeometry(b.this, BoxGeometry(BoxExpand(worldBounds, 1)),
                                 b.m_faces, b.heap))

\* Brush::buildGeometry
buildGeometry(b, worldBounds) ==
    LET Built(added) ==
            Outcome(BrushState(b.this, updateFacesFromGeometry(added.geometry),
                               added.geometry, added.heap),
                    TRUE,
                    IF added.brushEmpty THEN "Brush is empty"
                    ELSE IF ~added.brushValid THEN "Brush is invalid"
                    ELSE IF ~fullySpecified(added.geometry)
                         THEN "Brush is not fully specified"
                    ELSE NoThrow)
    IN  Built(AddFacesToGeometry(b.this, BoxGeometry(BoxExpand(worldBounds, 1)),
                                 b.m_faces, b.heap))

\* Brush::deleteGeometry
deleteGeometry(b) ==
    IF b.m_geometry.null THEN b
    ELSE BrushState(b.this, b.m_faces, NullGeometry,
                    SetGeometry(b.heap, Range(b.m_faces), NullGeomPtr))

\* Brush::rebuildGeometry
rebuildGeometry(b, worldBounds) == buildGeometry(deleteGeometry(b), worldBounds)

\* Brush::cleanup
cleanup(b) ==
    BrushState(b.this, << >>, NullGeometry, Delete(b.heap, Range(b.m_faces)))

\* the heap after new BrushFace for each entry of a list of faces, and the
\* addresses they got, in order
RECURSIVE NewAll(_, _)
NewAll(heap, faces) ==
    IF faces = << >> THEN [heap |-> heap, addrs |-> << >>]
    ELSE LET rest == NewAll(New(heap, Head(faces)), Tail(faces))
         IN  [heap |-> rest.heap, addrs |-> <<NewAddr(heap)>> \o rest.addrs]

\* Brush::Brush(worldBounds, faces): the faces are added, the geometry built;
\* a GeometryException cleans the brush up and is thrown on
Construct(this, heap, faces, worldBounds) ==
    LET CleanedUp(built) ==
            IF built.threw # NoThrow THEN Outcome(cleanup(built), FALSE, built.threw)
            ELSE built
    IN  CleanedUp(buildGeometry(BrushState(this, faces, NullGeometry, heap), worldBounds))

\* a copy constructor that shares the faces of the original
AliasBrush(this, other) ==
    BrushState(this, other.m_faces, other.m_geometry, other.heap)

\* Brush::Brush(const Brush&): every face is cloned and added in order; the
\* geometry is copied and CopyCallback binds each copied face to the clone of
\* its payload
CopyBrush(this, other) ==
    LET clones == NewAll(other.heap,
                         [i \in DOMAIN other.m_faces |->
                             CloneFace(other.heap[other.m_faces[i]])])
        FaceMap(a) == clones.addrs[CHOOSE i \in DOMAIN other.m_faces :
                                      other.m_faces[i] = a]
        geometry == IF other.m_geometry.null THEN NullGeometry
                    ELSE [other.m_geometry EXCEPT !.faces =
                            [i \in DOMAIN other.m_geometry.faces |->
                                GFace(other.m_geometry.faces[i].plane,
                                      FaceMap(other.m_geometry.faces[i].payload))]]
        heap == IF other.m_geometry.null THEN clones.heap
                ELSE [a \in DOMAIN clones.heap |->
                        IF \E i \in DOMAIN geometry.faces : geometry.faces[i].payload = a
                        THEN [clones.heap[a] EXCEPT !.geometry =
                                GeomPtr(this, clones.heap[a].boundary)]
                        ELSE clones.heap[a]]
    IN  BrushState(this, clones.addrs, geometry, heap)

\* a move constructor that leaves the source what it had
ShareBrush(other) ==
    [source |-> other,
     target |-> BrushState(other.this, other.m_faces, other.m_geometry, other.heap)]

\* Brush::Brush(Brush&&): the face list and the geometry pointer go to the new
\* Brush, which therefore holds the polyhedron the faces point into; the source
\* keeps an empty list and nullptr
MoveBrush(other) ==
    [source |-> BrushState(other.this, << >>, NullGeometry, other.heap),
     target |-> BrushState(other.this, other.m_faces, other.m_geometry, other.heap)]

\* the receiver takes over what the temporary Brush holds
Handover(b, temp, ret, threw) ==
    Outcome(BrushState(b.this, temp.m_faces, temp.m_geometry, temp.heap), ret, threw)

\* the receiver as a call left it, for a call on a temporary Brush: the
\* temporary is destroyed, the receiver's own fields are as before
Receiver(b, temp, ret, threw) ==
    Outcome(BrushState(b.this, b.m_faces, b.m_geometry, cleanup(temp).heap), ret, threw)

\* face->transform(vm::translation_matrix(t), lockTexture) for the faces listed
TransformFaces(heap, addrs, t, lockTexture) ==
    [a \in DOMAIN heap |-> IF a \in addrs THEN TransformFace(heap[a], t, lockTexture)
                                          ELSE heap[a]]

\* a try/catch that reports success whatever was thrown
Swallowed(built) == Outcome(built, TRUE, NoThrow)

\* the try/catch of clip and expand: a GeometryException makes the call return
\* false, otherwise it returns !m_faces.empty()
Caught(built) ==
    IF built.threw # NoThrow THEN Outcome(built, FALSE, NoThrow)
    ELSE Outcome(built, built.m_faces # << >>, NoThrow)

\* Brush::clip: face is the address of a BrushFace the caller made
clip(b, worldBounds, face) ==
    Caught(rebuildGeometry(
               BrushState(b.this, Append(b.m_faces, face), b.m_geometry, b.heap),
               worldBounds))

\* Brush::expand: every face moves along its own normal by delta (here for
\* axis-aligned faces, whose unit normal is an integer vector)
expand(b, worldBounds, delta, lockTexture) ==
    LET moveAmount(f) == <<f.boundary.n[1] * delta, f.boundary.n[2] * delta,
                           f.boundary.n[3] * delta>>
    IN  Caught(rebuildGeometry(
                   BrushState(b.this, b.m_faces, b.m_geometry,
                              [a \in DOMAIN b.heap |->
                                  IF a \in Range(b.m_faces)
                                  THEN TransformFace(b.heap[a], moveAmount(b.heap[a]),
                                                     lockTexture)
                                  ELSE b.heap[a]]),
                   worldBounds))

\* Brush::canExpand
canExpand(b, worldBounds, delta, lockTexture) ==
    LET Answer(testBrush) == Receiver(b, testBrush, testBrush.ret, NoThrow)
    IN  Answer(expand(CopyBrush("testBrush", b), worldBounds, delta, lockTexture))

\* Brush::transform, for a translation matrix
transform(b, transformation, lockTextures, worldBounds) ==
    rebuildGeometry(BrushState(b.this, b.m_faces, b.m_geometry,
                               TransformFaces(b.heap, Range(b.m_faces), transformation,
                                              lockTextures)),
                    worldBounds)

\* Brush::canTransform
canTransform(b, transformation, worldBounds) ==
    LET Answer(testBrush) == Receiver(b, testBrush, testBrush.threw = NoThrow, NoThrow)
    IN  Answer(transform(CopyBrush("testBrush", b), transformation, FALSE, worldBounds))

\* Brush::intersect: the faces of the other brush are cloned into the list
intersect(b, worldBounds, brush) ==
    LET clones == NewAll(b.heap, [i \in DOMAIN brush |-> CloneFace(brush[i])])
    IN  rebuildGeometry(BrushState(b.this, b.m_faces \o clones.addrs, b.m_geometry,
                                   clones.heap),
                        worldBounds)

\* Brush::moveBoundary
moveBoundary(b, worldBounds, faceIndex, delta, lockTexture) ==
    rebuildGeometry(BrushState(b.this, b.m_faces, b.m_geometry,
                               TransformFaces(b.heap, {b.m_faces[faceIndex]}, delta,
                                              lockTexture)),
                    worldBounds)

\* Brush::canMoveBoundary: a test brush is built from a moved clone of the face
\* and clones of the others
canMoveBoundary(b, worldBounds, faceIndex, delta) ==
    LET face == b.m_faces[faceIndex]
        OtherFace(a) == a # face
        others == SelectSeq(b.m_faces, OtherFace)
        Answer(testBrush) ==
            Receiver(b, testBrush,
                     /\ testBrush.threw = NoThrow
                     /\ BoundsWithin(worldBounds, testBrush.m_geometry)
                     /\ closed(testBrush.m_geometry)
                     /\ Len(testBrush.m_faces) = Len(b.m_faces),
                     NoThrow)
        Test(testFaces) ==
            Answer(Construct("testBrush", testFaces.heap, testFaces.addrs, worldBounds))
    IN  Test(NewAll(b.heap,
                    <<TransformFace(CloneFace(b.heap[face]), delta, FALSE)>> \o
                    [i \in DOMAIN others |-> CloneFace(b.heap[others[i]])]))

\* Brush::findIntegerPlanePoints: a boundary with integer coefficients passes
\* through integer points and keeps its plane; the geometry is rebuilt
findIntegerPlanePoints(b, worldBounds) == rebuildGeometry(b, worldBounds)

(***************************************************************************)
(* Vertex edits.  vertexPositions is the set of positions the caller       *)
(* names (a std::set<vm::vec3> in the code), delta an integer vector.      *)
(***************************************************************************)
IsZero(delta) == delta = <<0, 0, 0>>

rejectVertexMove == [success |-> FALSE, geometry |-> EmptyGeometry]

\* a result that refuses the move it should accept
refuseVertexMove(result) == [success |-> FALSE, geometry |-> result]

acceptVertexMove(result) == [success |-> TRUE, geometry |-> result]

\* Polyhedron::point / edge / polygon / polyhedron of a geometry
ClassOf(g) == DegeneracyClass(g.vertices)

\* Polyhedron::Face::intersectWithRay(ray, vm::side::back) is not NaN, for a ray
\* from oldPos (below the face's plane) towards newPos (above it): the point
\* where it meets the plane lies in the face's polygon, the border included
RayHitsFace(sides, pl, oldPos, newPos) ==
    LET hit == EdgeCut(pl, oldPos, newPos)
    IN  \A side \in sides : PlaneSide(side, hit) <= 0

\* a sweep in which no vertex meets a face
TravelsThroughNothing(moving, remaining, sides, delta) == FALSE

\* the sweep of Brush::doCanMoveVertices: some moving vertex travels through a
\* face of the remaining fragment, from behind it to in front of it
TravelsThrough(moving, remaining, sides, delta) ==
    \E oldPos \in moving.vertices : \E i \in DOMAIN remaining.faces :
        /\ pointStatus(remaining.faces[i].plane, oldPos) = "below"
        /\ pointStatus(remaining.faces[i].plane, PtAdd(oldPos, delta)) = "above"
        /\ RayHitsFace(sides, remaining.faces[i].plane, oldPos, PtAdd(oldPos, delta))

\* a sweep that looks for a vertex entering the fragment through a face, from in
\* front of it to behind it
SweepInwards(moving, remaining, delta) ==
    \E oldPos \in moving.vertices : \E i \in DOMAIN remaining.faces :
        /\ pointStatus(remaining.faces[i].plane, oldPos) = "above"
        /\ pointStatus(remaining.faces[i].plane, PtAdd(oldPos, delta)) = "below"
        /\ RayHitsFace(BoundingPlanes(remaining.vertices, ClassOf(remaining)),
                       remaining.faces[i].plane, oldPos, PtAdd(oldPos, delta))

\* the sweep after the fragments have been told apart: remaining is swapped with
\* moving and delta negated when remaining has no face to hit, or has one and
\* moving is a polyhedron
Sweep(moving, remaining, delta) ==
    IF \/ ClassOf(remaining) \in {"point", "edge"}
       \/ ClassOf(remaining) = "polygon" /\ ClassOf(moving) = "polyhedron"
    THEN TravelsThrough(remaining, moving,
                        BoundingPlanes(moving.vertices, ClassOf(moving)), Neg(delta))
    ELSE TravelsThrough(moving, remaining,
                        BoundingPlanes(remaining.vertices, ClassOf(remaining)), delta)

\* a decision that never looks at worldBounds
DecideInAnyWorld(b, worldBounds, remaining, moving, result, delta, allowVertexRemoval) ==
    IF ClassOf(result) # "polyhedron" THEN rejectVertexMove
    ELSE acceptVertexMove(result)

\* a decision that sweeps in every cell of the table
DecideBySweep(b, worldBounds, remaining, moving, result, delta, allowVertexRemoval) ==
    IF ~BoundsWithin(worldBounds, result) THEN rejectVertexMove
    ELSE IF Cardinality(moving.vertices) = Cardinality(b.m_geometry.vertices)
         THEN acceptVertexMove(result)
    ELSE IF ~allowVertexRemoval
            /\ \E movingVertex \in moving.vertices :
                  ~hasVertex(result, PtAdd(movingVertex, delta))
         THEN rejectVertexMove
    ELSE IF ClassOf(result) # "polyhedron" THEN rejectVertexMove
    ELSE IF Sweep(moving, remaining, delta) THEN rejectVertexMove
    ELSE acceptVertexMove(result)

\* Brush::doCanMoveVertices from the three polyhedra on: remaining (the vertices
\* that stay), moving (the brush's vertices among vertexPositions) and result
\* (the remaining ones and the moved ones)
DecideVertexMove(b, worldBounds, remaining, moving, result, delta, allowVertexRemoval) ==
    IF ~BoundsWithin(worldBounds, result) THEN rejectVertexMove
    ELSE IF Cardinality(moving.vertices) = Cardinality(b.m_geometry.vertices)
         THEN acceptVertexMove(result)
    ELSE IF ~allowVertexRemoval
            /\ \E movingVertex \in moving.vertices :
                  ~hasVertex(result, PtAdd(movingVertex, delta))
         THEN rejectVertexMove
    ELSE IF ClassOf(result) # "polyhedron" THEN rejectVertexMove
    ELSE IF \/ ClassOf(moving) = "point" /\ ClassOf(remaining) = "polygon"
            \/ ClassOf(moving) = "edge" /\ ClassOf(remaining) = "edge"
         THEN acceptVertexMove(result)
    ELSE IF Sweep(moving, remaining, delta) THEN rejectVertexMove
    ELSE acceptVertexMove(result)

\* Brush::doCanMoveVertices.  flipped selects the orientation of the one face
\* of a fragment that is a polygon.
doCanMoveVertices(b, worldBounds, vertexPositions, delta, allowVertexRemoval, flipped) ==
    IF vertexPositions = {} \/ IsZero(delta) THEN rejectVertexMove
    ELSE DecideVertexMove(
            b, worldBounds,
            PointGeometry(b.m_geometry.vertices \ vertexPositions, flipped),
            PointGeometry(b.m_geometry.vertices \cap vertexPositions, flipped),
            PointGeometry((b.m_geometry.vertices \ vertexPositions) \cup
                          {PtAdd(p, delta) : p \in b.m_geometry.vertices \cap vertexPositions},
                          flipped),
            delta, allowVertexRemoval)

\* Brush::canMoveVertices
canMoveVertices(b, worldBounds, vertices, delta, flipped) ==
    Outcome(b, doCanMoveVertices(b, worldBounds, vertices, delta, TRUE, flipped).success,
            NoThrow)

\* Polyhedron::hasEdge: both positions are vertices and two faces hold both
hasEdge(g, p, q) == p \in g.vertices /\ q \in g.vertices /\ p # q /\ Adjacent(g, p, q)

\* Polyhedron::hasFace: some face has exactly these vertices
hasFace(g, positions) ==
    \E i \in DOMAIN g.faces : OnPlane(g.vertices, g.faces[i].plane) = positions

\* Brush::canMoveEdges: an edge is the set of its two end positions
canMoveEdges(b, worldBounds, edgePositions, delta, flipped) ==
    LET Moved(e) == {PtAdd(p, delta) : p \in e}
        Answer(result) ==
            Outcome(b, /\ result.success
                       /\ \A e \in edgePositions :
                             \E p \in Moved(e) : \E q \in Moved(e) :
                                 hasEdge(result.geometry, p, q),
                    NoThrow)
    IN  Answer(doCanMoveVertices(b, worldBounds, UNION edgePositions, delta,
                                 FALSE, flipped))

\* Brush::canMoveFaces: a face is the set of its corner positions
canMoveFaces(b, worldBounds, facePositions, delta, flipped) ==
    LET Answer(result) ==
            Outcome(b, /\ result.success
                       /\ \A f \in facePositions :
                             hasFace(result.geometry, {PtAdd(p, delta) : p \in f}),
                    NoThrow)
    IN  Answer(doCanMoveVertices(b, worldBounds, UNION facePositions, delta,
                                 FALSE, flipped))

\* Brush::canAddVertex
canAddVertex(b, worldBounds, position) ==
    Outcome(b, BoxContainsPt(worldBounds, position)
               /\ ~GeometryContains(b.m_geometry, position),
            NoThrow)

\* Brush::canRemoveVertices
canRemoveVertices(b, worldBounds, vertexPositions) ==
    Outcome(b, DegeneracyClass(b.m_geometry.vertices \ vertexPositions) = "polyhedron",
            NoThrow)

\* round(x / snapTo) * snapTo for a rational x = num / den, halves away from zero
RoundTo(num, den, snapTo) ==
    LET q == (2 * Abs(num) + den * snapTo) \div (2 * den * snapTo)
    IN  Sgn(num) * q * snapTo

\* snapToF * round(origin / snapToF)
SnapPosition(origin, snapToF) ==
    Pt(RoundTo(origin[1], origin[4], snapToF), RoundTo(origin[2], origin[4], snapToF),
       RoundTo(origin[3], origin[4], snapToF))

\* Brush::canSnapVertices: the world bounds are not consulted
canSnapVertices(b, worldBounds, snapToF) ==
    Outcome(b, DegeneracyClass({SnapPosition(v, snapToF) : v \in b.m_geometry.vertices})
                  = "polyhedron",
            NoThrow)

(***************************************************************************)
(* PolyhedronMatcher and the edits that install a new geometry.            *)
(***************************************************************************)
NoMapping == [p \in {} |-> p]

\* the position an old vertex corresponds to in the new geometry
Mapped(vertexMapping, p) == IF p \in DOMAIN vertexMapping THEN vertexMapping[p] ELSE p

\* PolyhedronMatcher: the face of the old geometry that matches a face of the
\* new one best, the one most of whose vertices end on the new face (the first
\* such face of the old geometry)
BestMatchingLeftFace(left, right, vertexMapping, rightPlane) ==
    LET rightVertices == OnPlane(right.vertices, rightPlane)
        Score(i) == Cardinality({v \in OnPlane(left.vertices, left.faces[i].plane) :
                                    Mapped(vertexMapping, v) \in rightVertices})
    IN  CHOOSE i \in DOMAIN left.faces :
            \A j \in DOMAIN left.faces :
                Score(j) < Score(i) \/ (Score(j) = Score(i) /\ i <= j)

\* a doSetNewGeometry that deletes the old faces and installs nothing
forgetNewGeometry(b, worldBounds, newGeometry, vertexMapping) ==
    Outcome(cleanup(b), TRUE, NoThrow)

\* Brush::doSetNewGeometry without uvLock: every face of the new geometry gets
\* a clone of the payload of its matching old face, with the new face's plane;
\* the old faces are deleted; the clones become the face list; the geometry is
\* rebuilt from them
doSetNewGeometry(b, worldBounds, newGeometry, vertexMapping) ==
    LET RightFace(i) ==
            LET left == b.m_geometry.faces[BestMatchingLeftFace(
                            b.m_geometry, newGeometry, vertexMapping,
                            newGeometry.faces[i].plane)]
            IN  [CloneFace(b.heap[left.payload]) EXCEPT
                    !.boundary = newGeometry.faces[i].plane,
                    !.geometry = GeomPtr("newGeometry", newGeometry.faces[i].plane)]
        Rebuilt(rightFaces) ==
            rebuildGeometry(BrushState(b.this, rightFaces.addrs, b.m_geometry,
                                       Delete(rightFaces.heap, Range(b.m_faces))),
                            worldBounds)
    IN  Rebuilt(NewAll(b.heap, [i \in DOMAIN newGeometry.faces |-> RightFace(i)]))

\* Brush::addVertex
addVertex(b, worldBounds, position) ==
    doSetNewGeometry(b, worldBounds,
                     PointGeometry(b.m_geometry.vertices \cup {position}, FALSE),
                     NoMapping)

\* Brush::removeVertices
removeVertices(b, worldBounds, vertexPositions) ==
    doSetNewGeometry(b, worldBounds,
                     PointGeometry(b.m_geometry.vertices \ vertexPositions, FALSE),
                     NoMapping)

\* Brush::snapVertices
snapVertices(b, worldBounds, snapToF) ==
    LET Install(newGeometry) ==
            doSetNewGeometry(b, worldBounds, newGeometry,
                             [v \in {u \in b.m_geometry.vertices :
                                        hasVertex(newGeometry, SnapPosition(u, snapToF))}
                                 |-> SnapPosition(v, snapToF)])
    IN  Install(PointGeometry({SnapPosition(v, snapToF) : v \in b.m_geometry.vertices},
                              FALSE))

\* Brush::doMoveVertices
doMoveVertices(b, worldBounds, vertexPositions, delta) ==
    LET NewPosition(p) == IF p \in vertexPositions THEN PtAdd(p, delta) ELSE p
        Install(newGeometry) ==
            doSetNewGeometry(b, worldBounds, newGeometry,
                             [p \in {u \in b.m_geometry.vertices :
                                        hasVertex(newGeometry, NewPosition(u))}
                                 |-> NewPosition(p)])
    IN  Install(PointGeometry({NewPosition(p) : p \in b.m_geometry.vertices}, FALSE))

\* Brush::moveVertices
moveVertices(b, worldBounds, vertexPositions, delta) ==
    doMoveVertices(b, worldBounds, vertexPositions, delta)

(***************************************************************************)
(* Boolean subtraction.  Polyhedron::subtract clips the minuend by every   *)
(* plane of the subtrahend in turn: what lies in front of the plane is a   *)
(* fragment of the difference, what lies behind it is clipped further, and *)
(* what is left at the end (the intersection) is dropped.                  *)
(***************************************************************************)
\* Polyhedron::clip without callbacks, as a value
ClipOf(g, pl) ==
    CASE ClipType(g, pl) = "unchanged" -> g
      [] ClipType(g, pl) = "empty" -> EmptyGeometry
      [] OTHER -> ClipCut(g, pl, nullptr).geometry

RECURSIVE ClipAll(_, _)
ClipAll(g, faces) ==
    IF faces = << >> \/ g.vertices = {} THEN g
    ELSE ClipAll(ClipOf(g, Head(faces).plane), Tail(faces))

\* Polyhedron::intersects: the two solids share more than their boundary
PolyhedronIntersects(g, h) == ClipAll(g, h.faces).vertices # {}

RECURSIVE SubtractPlanes(_, _)
SubtractPlanes(remainder, faces) ==
    IF faces = << >> \/ remainder.vertices = {} THEN << >>
    ELSE LET Fragment(front) ==
                 IF DegeneracyClass(front.vertices) = "polyhedron" THEN <<front>>
                 ELSE << >>
         IN  Fragment(ClipOf(remainder, Flip(Head(faces).plane))) \o
             SubtractPlanes(ClipOf(remainder, Head(faces).plane), Tail(faces))

\* Polyhedron::subtract
PolyhedronSubtract(g, h) ==
    IF ~PolyhedronIntersects(g, h) THEN <<g>> ELSE SubtractPlanes(g, h.faces)

\* Brush::findFace(boundary): the index of the first face with that boundary,
\* 0 for std::nullopt
findFace(b, boundary) ==
    IF \E i \in DOMAIN b.m_faces : b.heap[b.m_faces[i]].boundary = boundary
    THEN CHOOSE i \in DOMAIN b.m_faces :
            /\ b.heap[b.m_faces[i]].boundary = boundary
            /\ \A j \in 1..(i - 1) : b.heap[b.m_faces[j]].boundary # boundary
    ELSE 0

\* every face of b takes the attributes of the face of brush that findFace
\* finds for its boundary, or for its flipped boundary when inverted
CloneAttributes(b, brush, inverted) ==
    LET Source(destination) ==
            findFace(brush, IF inverted THEN Flip(destination.boundary)
                                        ELSE destination.boundary)
        Taken(face, source) ==
            IF source # 0
            THEN [face EXCEPT !.attribs = brush.heap[brush.m_faces[source]].attribs]
            ELSE face
    IN  BrushState(b.this, b.m_faces, b.m_geometry,
                   [a \in DOMAIN b.heap |->
                       IF a \in Range(b.m_faces)
                       THEN Taken(b.heap[a], Source(b.heap[a]))
                       ELSE b.heap[a]])

\* Brush::cloneFaceAttributesFrom
cloneFaceAttributesFrom(b, brush) ==
    CloneAttributes(b, brush, FALSE)

\* Brush::cloneInvertedFaceAttributesFrom
cloneInvertedFaceAttributesFrom(b, brush) ==
    CloneAttributes(b, brush, TRUE)

RECURSIVE CloneInvertedFromAll(_, _)
CloneInvertedFromAll(b, subtrahends) ==
    IF subtrahends = << >> THEN b
    ELSE CloneInvertedFromAll(cloneInvertedFaceAttributesFrom(b, Head(subtrahends)),
                              Tail(subtrahends))

\* a createBrush whose constructor always throws
createNoBrush(b, worldBounds, defaultTextureName, geometry, subtrahends) ==
    Outcome(BrushState("fragment", << >>, NullGeometry, << >>), TRUE, "Brush is empty")

\* Brush::createBrush: a brush of its own with one face per face of the
\* geometry; threw names the GeometryException of its constructor
createBrush(b, worldBounds, defaultTextureName, geometry, subtrahends) ==
    LET Dressed(brush) ==
            IF brush.threw # NoThrow THEN brush
            ELSE Outcome(CloneInvertedFromAll(cloneFaceAttributesFrom(brush, b),
                                              subtrahends),
                         TRUE, NoThrow)
        Made(made) ==
            Dressed(Construct("fragment", made.heap, made.addrs, worldBounds))
    IN  Made(NewAll(<< >>, [i \in DOMAIN geometry.faces |->
                               BrushFace(geometry.faces[i].plane,
                                         Attribs(defaultTextureName, 0))]))

RECURSIVE SubtractEach(_, _)
SubtractEach(result, h) ==
    IF result = << >> THEN << >>
    ELSE PolyhedronSubtract(Head(result), h) \o SubtractEach(Tail(result), h)

\* a subtract loop that takes the subtrahends last to first
RECURSIVE SubtractLastFirst(_, _)
SubtractLastFirst(result, subtrahends) ==
    IF subtrahends = << >> THEN result
    ELSE SubtractEach(SubtractLastFirst(result, Tail(subtrahends)),
                      Head(subtrahends).m_geometry)

RECURSIVE SubtractAll(_, _)
SubtractAll(result, subtrahends) ==
    IF subtrahends = << >> THEN result
    ELSE SubtractAll(SubtractEach(result, Head(subtrahends).m_geometry),
                     Tail(subtrahends))

\* the brushes made of the fragments, those whose constructor threw left out
RECURSIVE CreateBrushes(_, _, _, _, _)
CreateBrushes(b, worldBounds, defaultTextureName, result, subtrahends) ==
    IF result = << >> THEN << >>
    ELSE LET Kept(brush) == IF brush.threw # NoThrow THEN << >> ELSE <<brush>>
         IN  Kept(createBrush(b, worldBounds, defaultTextureName, Head(result),
                              subtrahends))
             \o CreateBrushes(b, worldBounds, defaultTextureName, Tail(result),
                              subtrahends)

\* a subtract that takes nothing away from the minuend
subtractNothing(b, worldBounds, defaultTextureName, subtrahends) ==
    Outcome(b, CreateBrushes(b, worldBounds, defaultTextureName,
                             <<b.m_geometry>>, subtrahends),
            NoThrow)

\* Brush::subtract: ret is the list of brushes returned
subtract(b, worldBounds, defaultTextureName, subtrahends) ==
    Outcome(b, CreateBrushes(b, worldBounds, defaultTextureName,
                             SubtractAll(<<b.m_geometry>>, subtrahends), subtrahends),
            NoThrow)

(***************************************************************************)
(* The state machine: one Brush, its callers' edits and queries.           *)
(***************************************************************************)
VARIABLES
    m_faces,     \* Brush::m_faces: the addresses of the brush's faces, in order
    m_geometry,  \* Brush::m_geometry
    heap,        \* the BrushFace objects that are allocated
    call,        \* the last constructor or edit: its name, arguments and result
    pre,         \* m_faces, m_geometry and heap as they were before that call
    query,       \* the const member function last called and what it returned
    steps,       \* the number of edits so far
    other        \* a second Brush the caller made from this one: its copy, or the
                 \* Brush it was moved to

vars == <<m_faces, m_geometry, heap, call, pre, query, steps, other, heals>>

\* no second Brush has been made
NoBrush == [this |-> "none", m_faces |-> << >>, m_geometry |-> NullGeometry]

\* the number of edits a behaviour makes
MaxEdits == 2

\* the world is the box from the origin to WorldSize on every axis
WorldSize == 4

worldBounds == [min |-> <<0, 0, 0>>, max |-> <<WorldSize, WorldSize, WorldSize>>]

Box(lo, hi) == {Pt(x, y, z) : x \in {lo[1], hi[1]}, y \in {lo[2], hi[2]},
                              z \in {lo[3], hi[3]}}

\* the faces a caller makes for the solid with the given corners
FacesOf(corners) ==
    LET planes == SortPlanes(HullPlanes(corners))
    IN  [i \in DOMAIN planes |-> BrushFace(planes[i], Attribs(i, 0))]

\* Brush(worldBounds, faces) for freshly made faces
NewBrush(this, faces) ==
    LET Made(made) == Construct(this, made.heap, made.addrs, worldBounds)
    IN  Made(NewAll(<< >>, faces))

Cube == Box(<<1, 1, 1>>, <<3, 3, 3>>)

Tetrahedron == {Pt(1, 1, 1), Pt(3, 1, 1), Pt(1, 3, 1), Pt(1, 1, 3)}

Slab == Box(<<0, 0, 0>>, <<4, 4, 2>>)

\* the brushes a behaviour starts from
Catalog == {Cube, Tetrahedron, Slab}

This == BrushState("brush", m_faces, m_geometry, heap)

Snapshot == [m_faces |-> m_faces, m_geometry |-> m_geometry, heap |-> heap]

NoQuery == [op |-> "none"]

\* the BrushFace objects a brush refers to, from its face list or from its
\* geometry's payloads; objects nothing refers to any more are not tracked
Owned(b) ==
    [a \in DOMAIN b.heap \cap
             (Range(b.m_faces) \cup {b.m_geometry.faces[i].payload :
                                        i \in DOMAIN b.m_geometry.faces}) |-> b.heap[a]]

\* the last edit left a brush that can be used: it threw nothing and did not
\* report failure
Usable ==
    /\ call.threw = NoThrow
    /\ call.ret
    /\ query = NoQuery

\* the state after Brush(worldBounds, faces)
Created(b) ==
    /\ heals = TRUE
    /\ m_faces = b.m_faces
    /\ m_geometry = b.m_geometry
    /\ heap = Owned(b)
    /\ call = [op |-> "Brush", ret |-> b.ret, threw |-> b.threw]
    /\ pre = [m_faces |-> << >>, m_geometry |-> NullGeometry, heap |-> << >>]
    /\ query = NoQuery
    /\ steps = 0
    /\ other = NoBrush

Init == \E corners \in Catalog : Created(NewBrush("brush", FacesOf(corners)))

\* an edit: the brush becomes what the call left, the call is recorded with
\* the argument the properties refer to
EditWith(op, args, out) ==
    /\ m_faces' = out.m_faces
    /\ m_geometry' = out.m_geometry
    /\ heap' = Owned(out)
    /\ call' = [op |-> op, args |-> args, ret |-> out.ret, threw |-> out.threw]
    /\ pre' = Snapshot
    /\ query' = NoQuery
    /\ steps' = steps + 1
    /\ UNCHANGED <<other, heals>>

Edit(op, out) == EditWith(op, << >>, out)

\* a call of a const member function: its answer is recorded until the caller
\* has taken it (Return)
Query(op, args, out) ==
    /\ m_faces' = out.m_faces
    /\ m_geometry' = out.m_geometry
    /\ heap' = Owned(out)
    /\ query' = [op |-> op, args |-> args, ret |-> out.ret, pre |-> Snapshot]
    /\ UNCHANGED <<call, pre, steps, other, heals>>

Return ==
    /\ query # NoQuery
    /\ query' = NoQuery
    /\ UNCHANGED <<m_faces, m_geometry, heap, call, pre, steps, other, heals>>

CanCall == Usable /\ steps < MaxEdits

AxisAligned == \A i \in DOMAIN m_faces : IsAxisAligned(heap[m_faces[i]].boundary)

\* the planes callers clip with
ClipPlanes == {NormPlane(<<1, 0, 0>>, 2), NormPlane(<<1, 0, 0>>, 0),
               NormPlane(<<0, 0, -1>>, -4), NormPlane(<<1, 1, 0>>, 5)}

Clip ==
    /\ CanCall
    /\ \E pl \in ClipPlanes :
        /\ Edit("clip",
                clip(BrushState("brush", m_faces, m_geometry,
                                New(heap, BrushFace(pl, Attribs(0, 0)))),
                     worldBounds, NewAddr(heap)))

ExpandDeltas == {1, -1}

Expand ==
    /\ CanCall
    /\ \E delta \in ExpandDeltas : \E lockTexture \in BOOLEAN :
        /\ AxisAligned
        /\ EditWith("expand", <<delta, lockTexture>>,
                    expand(This, worldBounds, delta, lockTexture))

Translations == {<<1, 0, 0>>, <<0, 3, 0>>}

Transform ==
    /\ CanCall
    /\ \E t \in Translations : \E lockTextures \in BOOLEAN :
        /\ Edit("transform", transform(This, t, lockTextures, worldBounds))

\* the brushes callers intersect with and subtract
Others == {Box(<<2, 2, 2>>, <<4, 4, 4>>), Box(<<0, 0, 3>>, <<4, 4, 4>>)}

Intersect ==
    /\ CanCall
    /\ \E corners \in Others :
        /\ Edit("intersect", intersect(This, worldBounds, FacesOf(corners)))

BoundaryDeltas == {<<1, 0, 0>>, <<0, 0, -2>>}

MoveBoundary ==
    /\ CanCall
    /\ \E faceIndex \in DOMAIN m_faces : \E delta \in BoundaryDeltas :
        /\ canMoveBoundary(This, worldBounds, faceIndex, delta).ret
        /\ Edit("moveBoundary", moveBoundary(This, worldBounds, faceIndex, delta, FALSE))

FindIntegerPlanePoints ==
    /\ CanCall
    /\ Edit("findIntegerPlanePoints", findIntegerPlanePoints(This, worldBounds))

\* the positions callers add as vertices
AddPositions == {Pt(2, 2, 4), Pt(5, 2, 2), Pt(2, 2, 2)}

AddVertex ==
    /\ CanCall
    /\ \E position \in AddPositions :
        /\ canAddVertex(This, worldBounds, position).ret
        /\ Edit("addVertex", addVertex(This, worldBounds, position))

\* the vertex positions callers name, one or several at a time
VertexSets == {{Pt(3, 3, 3)}, {Pt(1, 1, 1)}, {Pt(2, 2, 2)}}

RemoveVertices ==
    /\ CanCall
    /\ \E vertexPositions \in VertexSets :
        /\ canRemoveVertices(This, worldBounds, vertexPositions).ret
        /\ Edit("removeVertices", removeVertices(This, worldBounds, vertexPositions))

\* the grid sizes callers snap to
GridSizes == {2, 5}

SnapVertices ==
    /\ CanCall
    /\ \E snapToF \in GridSizes :
        /\ EditWith("snapVertices", snapToF, snapVertices(This, worldBounds, snapToF))

VertexDeltas == {<<1, 1, 1>>, <<-1, -1, -1>>}

MoveVertices ==
    /\ CanCall
    /\ \E vertexPositions \in VertexSets : \E delta \in VertexDeltas :
        /\ \E flipped \in BOOLEAN :
              canMoveVertices(This, worldBounds, vertexPositions, delta, flipped).ret
        /\ Edit("moveVertices", moveVertices(This, worldBounds, vertexPositions, delta))

CanExpand ==
    /\ CanCall
    /\ \E delta \in ExpandDeltas : \E lockTexture \in BOOLEAN :
        /\ AxisAligned
        /\ Query("canExpand", <<delta, lockTexture>>,
                 canExpand(This, worldBounds, delta, lockTexture))

CanTransform ==
    /\ CanCall
    /\ \E t \in Translations :
        /\ Query("canTransform", t, canTransform(This, t, worldBounds))

CanMoveBoundary ==
    /\ CanCall
    /\ \E faceIndex \in DOMAIN m_faces : \E delta \in BoundaryDeltas :
        /\ Query("canMoveBoundary", <<faceIndex, delta>>,
                 canMoveBoundary(This, worldBounds, faceIndex, delta))

CanMoveVertices ==
    /\ CanCall
    /\ \E vertexPositions \in VertexSets : \E delta \in VertexDeltas :
       \E flipped \in BOOLEAN :
        /\ Query("canMoveVertices", <<vertexPositions, delta>>,
                 canMoveVertices(This, worldBounds, vertexPositions, delta, flipped))

\* the edges callers name, each the set of its two ends
EdgeSets == {{{Pt(1, 1, 1), Pt(3, 1, 1)}}}

\* the deltas callers move edges by: along a diagonal, and from an edge of a box
\* to the opposite edge of the same face
EdgeDeltas == VertexDeltas \cup {<<0, 2, 0>>}

CanMoveEdges ==
    /\ CanCall
    /\ \E edgePositions \in EdgeSets : \E delta \in EdgeDeltas : \E flipped \in BOOLEAN :
        /\ Query("canMoveEdges", <<edgePositions, delta>>,
                 canMoveEdges(This, worldBounds, edgePositions, delta, flipped))

\* the faces callers name, each the set of its corners
FaceSets == {{{Pt(3, 1, 1), Pt(3, 3, 1), Pt(3, 1, 3), Pt(3, 3, 3)}}}

CanMoveFaces ==
    /\ CanCall
    /\ \E facePositions \in FaceSets : \E delta \in VertexDeltas : \E flipped \in BOOLEAN :
        /\ Query("canMoveFaces", <<facePositions, delta>>,
                 canMoveFaces(This, worldBounds, facePositions, delta, flipped))

CanAddVertex ==
    /\ CanCall
    /\ \E position \in AddPositions :
        /\ Query("canAddVertex", position, canAddVertex(This, worldBounds, position))

CanRemoveVertices ==
    /\ CanCall
    /\ \E vertexPositions \in VertexSets :
        /\ Query("canRemoveVertices", vertexPositions,
                 canRemoveVertices(This, worldBounds, vertexPositions))

CanSnapVertices ==
    /\ CanCall
    /\ \E snapToF \in GridSizes :
        /\ Query("canSnapVertices", snapToF, canSnapVertices(This, worldBounds, snapToF))

\* subtract with one subtrahend: a brush identical to the receiver, or another
Subtract ==
    /\ CanCall
    /\ \E subtrahend \in {CopyBrush("subtrahend", This)} \cup
                         {NewBrush("subtrahend", FacesOf(corners)) : corners \in Others} :
        /\ Query("subtract", subtrahend.m_geometry,
                 subtract(This, worldBounds, 0, <<subtrahend>>))

Next ==
    \/ Clip
    \/ Expand
    \/ Transform
    \/ Intersect
    \/ MoveBoundary
    \/ FindIntegerPlanePoints
    \/ AddVertex
    \/ RemoveVertices
    \/ SnapVertices
    \/ MoveVertices
    \/ CanExpand
    \/ CanTransform
    \/ CanMoveBoundary
    \/ CanMoveVertices
    \/ CanMoveEdges
    \/ CanMoveFaces
    \/ CanAddVertex
    \/ CanRemoveVertices
    \/ CanSnapVertices
    \/ Subtract
    \/ Return

Spec == Init /\ [][Next]_vars

(***************************************************************************)
(* The vertex-move decision on its own: doCanMoveVertices called on a      *)
(* brush with every kind of selection.                                     *)
(***************************************************************************)
Pyramid == {Pt(1, 1, 1), Pt(3, 1, 1), Pt(1, 3, 1), Pt(3, 3, 1), Pt(2, 2, 3)}

MoveCatalog == {Cube, Tetrahedron, Pyramid}

\* a position that is a vertex of no brush of the catalog
Elsewhere == Pt(2, 2, 2)

\* the selections a caller makes on a geometry: nothing, one vertex, the ends of
\* an edge, the corners of a face, every vertex, or a position that is no vertex
Selections(g) ==
    {{}, g.vertices, {Elsewhere}}
    \cup {{v} : v \in g.vertices}
    \cup {e \in {{u, v} : u \in g.vertices, v \in g.vertices} :
             \E u \in e : \E v \in e : hasEdge(g, u, v)}
    \cup {OnPlane(g.vertices, g.faces[i].plane) : i \in DOMAIN g.faces}

MoveDeltas == {<<0, 0, 0>>, <<1, 1, 1>>, <<-1, -1, -1>>, <<-3, -3, -3>>, <<0, 0, -3>>}

InitMove == \E corners \in MoveCatalog : Created(NewBrush("brush", FacesOf(corners)))

DoCanMoveVertices ==
    /\ query = NoQuery
    /\ \E vertexPositions \in Selections(m_geometry) : \E delta \in MoveDeltas :
       \E allowVertexRemoval \in BOOLEAN : \E flipped \in BOOLEAN :
          Query("doCanMoveVertices",
                [vertexPositions |-> vertexPositions, delta |-> delta,
                 allowVertexRemoval |-> allowVertexRemoval],
                Outcome(This, doCanMoveVertices(This, worldBounds, vertexPositions, delta,
                                                allowVertexRemoval, flipped).success,
                        NoThrow))

NextMove ==
    \/ DoCanMoveVertices
    \/ Return

SpecMove == InitMove /\ [][NextMove]_vars

(***************************************************************************)
(* Two Brush objects: the caller copies the brush or moves it into a new   *)
(* one, and then edits or destroys either.                                 *)
(***************************************************************************)
Other == BrushState(other.this, other.m_faces, other.m_geometry, heap)

\* the BrushFace objects either brush refers to
Kept(h, b, second) ==
    [a \in DOMAIN h \cap (DOMAIN Owned(BrushState(b.this, b.m_faces, b.m_geometry, h))
                          \cup DOMAIN Owned(BrushState(second.this, second.m_faces,
                                                       second.m_geometry, h))) |-> h[a]]

Both == [m_faces |-> m_faces, m_geometry |-> m_geometry, heap |-> heap, other |-> other]

CopyConstruct ==
    /\ Usable
    /\ other = NoBrush
    /\ LET Copied(copy) ==
               /\ other' = [this |-> copy.this, m_faces |-> copy.m_faces,
                            m_geometry |-> copy.m_geometry]
               /\ heap' = copy.heap
       IN  Copied(CopyBrush("copy", This))
    /\ call' = [op |-> "Brush(const Brush&)", ret |-> TRUE, threw |-> NoThrow,
                on |-> "copy"]
    /\ pre' = Both
    /\ steps' = steps + 1
    /\ UNCHANGED <<m_faces, m_geometry, query, heals>>

MoveConstruct ==
    /\ Usable
    /\ other = NoBrush
    /\ LET Moved(moved) ==
               /\ other' = [this |-> moved.target.this, m_faces |-> moved.target.m_faces,
                            m_geometry |-> moved.target.m_geometry]
               /\ m_faces' = moved.source.m_faces
               /\ m_geometry' = moved.source.m_geometry
               /\ heap' = Kept(moved.source.heap, moved.source, moved.target)
       IN  Moved(MoveBrush(This))
    /\ call' = [op |-> "Brush(Brush&&)", ret |-> TRUE, threw |-> NoThrow, on |-> "other"]
    /\ pre' = Both
    /\ steps' = steps + 1
    /\ UNCHANGED <<query, heals>>

\* what the caller then does to one of the two: clip, transform, or destroy
Mutations ==
    {<<"clip", NormPlane(<<1, 0, 0>>, 2)>>, <<"~Brush", NoPlane>>}
    \cup {<<"transform", t>> : t \in Translations}

Mutate(b, mutation) ==
    CASE mutation[1] = "clip" ->
            clip(BrushState(b.this, b.m_faces, b.m_geometry,
                            New(b.heap, BrushFace(mutation[2], Attribs(0, 0)))),
                 worldBounds, NewAddr(b.heap))
      [] mutation[1] = "transform" -> transform(b, mutation[2], TRUE, worldBounds)
      [] OTHER -> Outcome(cleanup(b), TRUE, NoThrow)

CanMutate ==
    /\ other # NoBrush
    /\ call.threw = NoThrow
    /\ call.ret
    /\ steps < MaxEdits + 1

MutateThis ==
    /\ CanMutate
    /\ \E mutation \in Mutations :
          /\ (mutation[1] # "~Brush" => ~m_geometry.null)
          /\ LET Done(out) ==
                     /\ m_faces' = out.m_faces
                     /\ m_geometry' = out.m_geometry
                     /\ heap' = Kept(out.heap, out, other)
                     /\ call' = [op |-> mutation[1], ret |-> out.ret,
                                 threw |-> out.threw, on |-> "this"]
             IN  Done(Mutate(This, mutation))
    /\ pre' = Both
    /\ steps' = steps + 1
    /\ UNCHANGED <<query, other, heals>>

MutateOther ==
    /\ CanMutate
    /\ \E mutation \in Mutations :
          /\ (mutation[1] # "~Brush" => ~other.m_geometry.null)
          /\ LET Done(out) ==
                     /\ other' = [this |-> out.this, m_faces |-> out.m_faces,
                                  m_geometry |-> out.m_geometry]
                     /\ heap' = Kept(out.heap, out, This)
                     /\ call' = [op |-> mutation[1], ret |-> out.ret,
                                 threw |-> out.threw, on |-> "other"]
             IN  Done(Mutate(Other, mutation))
    /\ pre' = Both
    /\ steps' = steps + 1
    /\ UNCHANGED <<query, m_faces, m_geometry, heals>>

NextCopy ==
    \/ CopyConstruct
    \/ MoveConstruct
    \/ MutateThis
    \/ MutateOther

SpecCopy == Init /\ [][NextCopy]_vars

(***************************************************************************)
(* buildGeometry on its own: a Brush whose constructor has added a list of *)
(* faces builds its geometry, with either answer of healEdges.             *)
(***************************************************************************)
\* the planes the lists of faces are made of: those of the cube, one that
\* leaves nothing of it, a slanted one, and one that cuts nothing off the cube
BuildPlanes ==
    HullPlanes(Cube) \cup {NormPlane(<<1, 0, 0>>, 0), NormPlane(<<1, 1, 0>>, 5),
                           NormPlane(<<0, 0, 1>>, 4)}

\* the faces of a list of planes, numbered in the order of the planes
FacesWith(planes) ==
    [i \in DOMAIN SortPlanes(planes) |-> BrushFace(SortPlanes(planes)[i], Attribs(i, 0))]

\* the constructor after addFaces(faces), before buildGeometry
InitBuild ==
    /\ \E planes \in SUBSET BuildPlanes :
          /\ planes # {}
          /\ LET Added(made) ==
                     /\ m_faces = made.addrs
                     /\ heap = made.heap
             IN  Added(NewAll(<< >>, FacesWith(planes)))
    /\ heals \in BOOLEAN
    /\ m_geometry = NullGeometry
    /\ call = [op |-> "addFaces", ret |-> TRUE, threw |-> NoThrow]
    /\ pre = [m_faces |-> << >>, m_geometry |-> NullGeometry, heap |-> << >>]
    /\ query = NoQuery
    /\ steps = 0
    /\ other = NoBrush

\* buildGeometry(worldBounds), as it returns or as it throws
BuildGeometry ==
    /\ call.op = "addFaces"
    /\ LET Built(out) ==
               /\ m_faces' = out.m_faces
               /\ m_geometry' = out.m_geometry
               /\ heap' = out.heap
               /\ call' = [op |-> "buildGeometry", ret |-> out.ret, threw |-> out.threw]
       IN  Built(buildGeometry(This, worldBounds))
    /\ pre' = Snapshot
    /\ steps' = steps + 1
    /\ UNCHANGED <<query, other, heals>>

NextBuild == BuildGeometry

SpecBuild == InitBuild /\ [][NextBuild]_vars

(***************************************************************************)
(* UV lock.  For a face of the new geometry and its matching face of the   *)
(* old one, PolyhedronMatcher::visitMatchingVertexPairs hands over the     *)
(* pairs (old position, new position) of the vertices that correspond, in  *)
(* the order of the old face's boundary; here the pairs are a sequence.    *)
(***************************************************************************)
NoTransform == [from |-> << >>, to |-> << >>, finite |-> FALSE]

\* vm::points_transformation_matrix: the affine map that takes three points to
\* three points; its entries are finite iff the three source points span a plane
points_transformation_matrix(from, to) ==
    [from |-> from, to |-> to, finite |-> ~Collinear(from[1], from[2], from[3])]

\* a findTransformForUVLock that does not give up when three vertices stay
findTransformOfAnyThree(pairs) ==
    LET unmovedVerts == SelectSeq(pairs, LAMBDA v : v[1] = v[2])
        movedVerts == SelectSeq(pairs, LAMBDA v : v[1] # v[2])
        Solve(referenceVerts) ==
            IF Len(referenceVerts) < 3 THEN [success |-> FALSE, M |-> NoTransform]
            ELSE [success |-> TRUE,
                  M |-> points_transformation_matrix(
                            <<referenceVerts[1][1], referenceVerts[2][1],
                              referenceVerts[3][1]>>,
                            <<referenceVerts[1][2], referenceVerts[2][2],
                              referenceVerts[3][2]>>)]
    IN  Solve(unmovedVerts \o movedVerts)

\* Brush::findTransformForUVLock
findTransformForUVLock(pairs) ==
    LET unmovedVerts == SelectSeq(pairs, LAMBDA v : v[1] = v[2])
        movedVerts == SelectSeq(pairs, LAMBDA v : v[1] # v[2])
        Checked(M) ==
            IF ~M.finite THEN [success |-> FALSE, M |-> NoTransform]
            ELSE [success |-> TRUE, M |-> M]
        Solve(referenceVerts) ==
            IF Len(referenceVerts) < 3 THEN [success |-> FALSE, M |-> NoTransform]
            ELSE Checked(points_transformation_matrix(
                             <<referenceVerts[1][1], referenceVerts[2][1],
                               referenceVerts[3][1]>>,
                             <<referenceVerts[1][2], referenceVerts[2][2],
                               referenceVerts[3][2]>>))
    IN  IF Len(unmovedVerts) >= 3 THEN [success |-> FALSE, M |-> NoTransform]
        ELSE Solve(unmovedVerts \o movedVerts)

\* Brush::applyUVLock on the payloads of the two faces.  leftClone->transform(M,
\* true) throws a GeometryException when M takes the face's points onto a line;
\* otherwise the texture offset follows the moves of the three reference points.
\* The result is the heap and what left the function.
applyUVLock(h, leftFace, rightFace, pairs) ==
    LET Locked(found) ==
            IF ~found.success THEN [heap |-> h, threw |-> NoThrow]
            ELSE IF Collinear(found.M.to[1], found.M.to[2], found.M.to[3])
                 THEN [heap |-> h, threw |-> NoThrow]
            ELSE LET Move(k) == Dir(found.M.from[k], found.M.to[k])
                     Shift(k) == Move(k)[1] + Move(k)[2] + Move(k)[3]
                 IN  [heap |-> [h EXCEPT ![rightFace].attribs =
                                    [h[leftFace].attribs EXCEPT
                                        !.offset = @ + Shift(1) + Shift(2) + Shift(3)]],
                      threw |-> NoThrow]
    IN  Locked(findTransformForUVLock(pairs))

\* the corners of a square face, and the middle of one of its sides
LockPoints == {Pt(1, 1, 1), Pt(3, 1, 1), Pt(3, 3, 1), Pt(1, 3, 1), Pt(2, 1, 1)}

\* what happens to a vertex: it stays, it moves up, or it moves to the one
\* position several vertices are snapped to
LockMoves == {"stays", "moves", "snaps"}

LockTarget(p, move) ==
    CASE move = "stays" -> p
      [] move = "moves" -> PtAdd(p, <<0, 0, 1>>)
      [] OTHER -> Pt(2, 2, 2)

\* the longest list of matching vertex pairs of a face
MaxPairs == 4

\* the lists of matching vertex pairs: distinct old positions, each with its
\* new position
PairLists ==
    UNION {{[i \in 1..n |-> <<ps[i], LockTarget(ps[i], ms[i])>>] :
               ps \in {q \in [1..n -> LockPoints] :
                          \A i \in 1..n : \A j \in 1..n : q[i] = q[j] => i = j},
               ms \in [1..n -> LockMoves]} : n \in 0..MaxPairs}

\* doSetNewGeometry has cloned the payload of the old face (address 1) for the
\* new face (address 2) and is about to lock its texture
InitUVLock ==
    /\ \E pairs \in PairLists :
          call = [op |-> "clone", args |-> pairs, ret |-> TRUE, threw |-> NoThrow]
    /\ heap = NewAll(<< >>, <<[BrushFace(NormPlane(<<0, 0, 1>>, 1), Attribs(1, 0)) EXCEPT
                                 !.geometry = GeomPtr("brush", NormPlane(<<0, 0, 1>>, 1))],
                              BrushFace(NormPlane(<<0, 0, 1>>, 1), Attribs(1, 0))>>).heap
    /\ m_faces = <<1>>
    /\ m_geometry = NullGeometry
    /\ pre = [m_faces |-> << >>, m_geometry |-> NullGeometry, heap |-> << >>]
    /\ query = NoQuery
    /\ steps = 0
    /\ other = NoBrush
    /\ heals = TRUE

\* applyUVLock(matcher, left, right)
ApplyUVLock ==
    /\ call.op = "clone"
    /\ LET Applied(out) ==
               /\ heap' = out.heap
               /\ call' = [op |-> "applyUVLock", args |-> call.args,
                           ret |-> findTransformForUVLock(call.args).success,
                           threw |-> out.threw]
       IN  Applied(applyUVLock(heap, 1, 2, call.args))
    /\ pre' = Snapshot
    /\ steps' = steps + 1
    /\ UNCHANGED <<m_faces, m_geometry, query, other, heals>>

NextUVLock == ApplyUVLock

SpecUVLock == InitUVLock /\ [][NextUVLock]_vars

(***************************************************************************)
(* Subtraction of a list of brushes.  The caller passes the world bounds;  *)
(* a fragment that does not fit them makes the constructor in createBrush  *)
(* throw.                                                                  *)
(***************************************************************************)
\* the longest list of subtrahends a caller passes
MaxSubtrahends == 2

\* the brushes a caller subtracts
Subtrahends ==
    {NewBrush("subtrahend", FacesOf(corners)) :
        corners \in Others \cup {Cube, Tetrahedron, Box(<<0, 0, 0>>, <<2, 4, 4>>)}}

SubtrahendLists == UNION {[1..n -> Subtrahends] : n \in 0..MaxSubtrahends}

\* the world bounds a caller passes: the world, and a world that ends at x = 1
SubtractWorlds == {worldBounds, [min |-> <<0, 0, 0>>, max |-> <<1, 4, 4>>]}

\* subtract(factory, worldBounds, defaultTextureName, subtrahends)
SubtractList ==
    /\ Usable
    /\ \E subtrahends \in SubtrahendLists : \E bounds \in SubtractWorlds :
        /\ Query("subtract(subtrahends)",
                 [subtrahends |-> subtrahends, worldBounds |-> bounds],
                 subtract(This, bounds, 0, subtrahends))

NextSubtract == SubtractList

SpecSubtract == Init /\ [][NextSubtract]_vars

(***************************************************************************)
(* Properties.                                                             *)
(***************************************************************************)
\* what a caller sees of a face list: which objects, in which order, with which
\* planes and attributes
FaceView(h, faces) ==
    [i \in DOMAIN faces |->
        IF faces[i] \in DOMAIN h
        THEN [face |-> faces[i], boundary |-> h[faces[i]].boundary,
              attribs |-> h[faces[i]].attribs]
        ELSE [face |-> faces[i], boundary |-> NoPlane, attribs |-> "deleted"]]

\* the brush's face list and geometry are what they were in the snapshot
SameBrush(before) ==
    /\ FaceView(heap, m_faces) = FaceView(before.heap, before.m_faces)
    /\ m_geometry = before.m_geometry

\* C1: whenever expand or clip returns false, the face list (same objects, same
\* order, same planes and attributes) and the geometry are what they were
\* immediately before the call.
C1_RejectedEditLeavesBrush ==
    (call.op \in {"expand", "clip"} /\ ~call.ret) => SameBrush(pre)

\* C2: when the rebuild in transform, intersect, moveBoundary or
\* findIntegerPlanePoints raises a structural error, the error does not leave
\* the operation and the face list, the face planes and the geometry are as
\* before the call.
C2_StructuralErrorIsCaught ==
    call.op \in {"transform", "intersect", "moveBoundary", "findIntegerPlanePoints"}
        => /\ call.threw = NoThrow
           /\ (Len(m_faces) # Len(m_geometry.faces) => SameBrush(pre))

\* every geometry face has a payload from the face list, every face of the list
\* points to a face of this brush's polyhedron whose payload it is, and no face
\* is listed twice
Bijection ==
    /\ ~m_geometry.null
    /\ \A j \in DOMAIN m_geometry.faces :
          /\ m_geometry.faces[j].payload # nullptr
          /\ m_geometry.faces[j].payload \in Range(m_faces)
    /\ \A i \in DOMAIN m_faces :
          /\ m_faces[i] \in DOMAIN heap
          /\ heap[m_faces[i]].geometry.g = "brush"
          /\ \E j \in DOMAIN m_geometry.faces :
                /\ m_geometry.faces[j].plane = heap[m_faces[i]].geometry.plane
                /\ m_geometry.faces[j].payload = m_faces[i]
    /\ \A i \in DOMAIN m_faces : \A k \in DOMAIN m_faces : m_faces[i] = m_faces[k] => i = k
    /\ Len(m_faces) = Len(m_geometry.faces)

\* C3: after any sequence of mutating operations that completed successfully
\* (construction, clip, expand, transform, intersect, moveBoundary, adding,
\* removing, moving and snapping vertices), the polyhedron's faces and the face
\* list are in bijection.
C3_FacesAndGeometryInBijection == (call.threw = NoThrow /\ call.ret) => Bijection

\* two edits completed, the second one installed a new geometry with a face
\* more than the box had, and the bijection is there
C3_Witness ==
    /\ steps = 2
    /\ call.op = "addVertex"
    /\ call.threw = NoThrow
    /\ Len(m_faces) > 6
    /\ Bijection

\* doCanMoveVertices was called and has answered
Decided == query # NoQuery /\ query.op = "doCanMoveVertices"

\* the vertices of the brush among the positions the caller named
MovingVertices == m_geometry.vertices \cap query.args.vertexPositions

\* the candidate result: the vertices that stay, and the moving ones at
\* position + delta
CandidateOf(vertexPositions, delta) ==
    (m_geometry.vertices \ vertexPositions)
    \cup {PtAdd(p, delta) : p \in m_geometry.vertices \cap vertexPositions}

Candidate == CandidateOf(query.args.vertexPositions, query.args.delta)

\* the bounding box of a set of positions is contained in a box
Inside(box, positions) == \A p \in positions : BoxContainsPt(box, p)

\* C4: canMoveVertices returns false whenever delta is the zero vector, or V is
\* empty, or the bounding box of the candidate result is not contained in
\* worldBounds; these rejections come before every accepting case, the move of
\* the whole brush included.
C4_ZeroEmptyOrOutsideIsRejected ==
    (/\ Decided
     /\ \/ IsZero(query.args.delta)
        \/ query.args.vertexPositions = {}
        \/ ~Inside(worldBounds, Candidate))
        => ~query.ret

\* the whole brush is moved by a non-zero delta that takes it out of the world,
\* and the move is rejected
C4_Witness ==
    /\ Decided
    /\ query.args.vertexPositions = m_geometry.vertices
    /\ ~IsZero(query.args.delta)
    /\ ~Inside(worldBounds, Candidate)
    /\ ~query.ret

\* C5: whenever no vertex of the brush is among the positions to move (also
\* when the caller names positions none of which is a vertex), the move is
\* rejected, with allowVertexRemoval true and false.
C5_EmptyMovingIsRejected == (Decided /\ MovingVertices = {}) => ~query.ret

\* C6: if every vertex of the brush is moving and delta is not zero, the move is
\* accepted if and only if the translated brush stays within worldBounds,
\* whatever the brush's shape and whatever allowVertexRemoval.
C6_WholeBrushMove ==
    (/\ Decided
     /\ m_geometry.vertices \subseteq query.args.vertexPositions
     /\ ~IsZero(query.args.delta))
        => (query.ret <=> Inside(worldBounds, Candidate))

\* a whole brush that is not a box is moved within the world, vertex removal
\* not allowed, and the move is accepted
C6_Witness ==
    /\ Decided
    /\ query.args.vertexPositions = m_geometry.vertices
    /\ Cardinality(m_geometry.vertices) = 5
    /\ ~query.args.allowVertexRemoval
    /\ query.ret

\* one vertex of a polyhedron with at least five vertices is moving and the
\* vertices that stay span a polyhedron
SingleVertexMove ==
    /\ Decided
    /\ Cardinality(m_geometry.vertices) >= 5
    /\ Cardinality(query.args.vertexPositions) = 1
    /\ Cardinality(MovingVertices) = 1
    /\ DegeneracyClass(m_geometry.vertices \ MovingVertices) = "polyhedron"

OldPosition == CHOOSE p \in MovingVertices : TRUE

NewPosition == PtAdd(OldPosition, query.args.delta)

\* the segment from the old to the new position meets the plane at a point of
\* the solid the remaining vertices span, i.e. in the polygon of a face of it
MeetsFace(pl) ==
    LET planes == HullPlanes(m_geometry.vertices \ MovingVertices)
        hit == EdgeCut(pl, OldPosition, NewPosition)
    IN  \A side \in planes : PlaneSide(side, hit) <= 0

\* the segment crosses a face of the remaining fragment, in either direction
CrossesSomeFace ==
    \E pl \in HullPlanes(m_geometry.vertices \ MovingVertices) :
        /\ PlaneSide(pl, OldPosition) * PlaneSide(pl, NewPosition) < 0
        /\ MeetsFace(pl)

\* the segment leaves the remaining fragment through one of its faces: the old
\* position behind the face's plane, the new one in front, the face hit
LeavesThroughFace ==
    \E pl \in HullPlanes(m_geometry.vertices \ MovingVertices) :
        /\ PlaneSide(pl, OldPosition) < 0
        /\ PlaneSide(pl, NewPosition) > 0
        /\ MeetsFace(pl)

\* C7: for a polyhedron with at least 5 vertices and a single moving vertex
\* whose remaining vertices span a polyhedron: a move that crosses no face of
\* the remaining fragment and keeps the result a polyhedron inside worldBounds
\* is accepted; a move that passes through the remaining fragment and out
\* through one of its faces is rejected, and the brush is as it was.
C7_SingleVertexSweep ==
    SingleVertexMove =>
        /\ (/\ ~IsZero(query.args.delta)
            /\ ~CrossesSomeFace
            /\ DegeneracyClass(Candidate) = "polyhedron"
            /\ Inside(worldBounds, Candidate)
            /\ query.args.allowVertexRemoval) => query.ret
        /\ LeavesThroughFace => (~query.ret /\ SameBrush(query.pre))

\* a corner of the cube is moved through the cube and out of the opposite
\* faces, the result would be a polyhedron within the world, and the move is
\* rejected
C7_Witness ==
    /\ SingleVertexMove
    /\ LeavesThroughFace
    /\ Inside(worldBounds, Candidate)
    /\ DegeneracyClass(Candidate) = "polyhedron"
    /\ ~query.ret

\* the feasibility predicates
Predicates ==
    {"canMoveVertices", "canMoveEdges", "canMoveFaces", "canMoveBoundary", "canExpand",
     "canTransform", "canAddVertex", "canRemoveVertices", "canSnapVertices"}

\* C8: the feasibility predicates are pure: whatever they return, the receiver's
\* face list, the planes and attributes of its faces, their pointers into the
\* geometry and the polyhedron are unchanged.
C8_PredicatesArePure ==
    (query # NoQuery /\ query.op \in Predicates)
        => /\ m_faces = query.pre.m_faces
           /\ m_geometry = query.pre.m_geometry
           /\ heap = query.pre.heap

\* canTransform has clipped its test brush away inside, caught the error and
\* answered false
C8_Witness ==
    /\ query # NoQuery
    /\ query.op = "canTransform"
    /\ ~query.ret
    /\ steps = 1

\* the positions the brush's vertices are rounded to
Snapped(snapToF) == {SnapPosition(v, snapToF) : v \in m_geometry.vertices}

\* the vertices of the solid the brush's planes bound once the plane of one
\* face has been moved by delta
MovedBoundary(faceIndex, delta) ==
    ClipAll(BoxGeometry(BoxExpand(worldBounds, 1)),
            [i \in DOMAIN m_faces |->
                GFace(IF i = faceIndex
                      THEN TranslatePlane(heap[m_faces[i]].boundary, delta)
                      ELSE heap[m_faces[i]].boundary, nullptr)]).vertices

\* C9: every predicate that receives worldBounds returns false whenever the
\* candidate result is not contained in worldBounds; in particular
\* canSnapVertices returns false if rounding a vertex to the grid places it
\* outside worldBounds.
C9_OutsideWorldIsRejected ==
    /\ (query # NoQuery /\ query.op = "canAddVertex"
            /\ ~BoxContainsPt(worldBounds, query.args)) => ~query.ret
    /\ (query # NoQuery /\ query.op = "canMoveVertices"
            /\ ~Inside(worldBounds, CandidateOf(query.args[1], query.args[2])))
          => ~query.ret
    /\ (query # NoQuery /\ query.op \in {"canMoveEdges", "canMoveFaces"}
            /\ ~Inside(worldBounds, CandidateOf(UNION query.args[1], query.args[2])))
          => ~query.ret
    /\ (query # NoQuery /\ query.op = "canMoveBoundary"
            /\ ~Inside(worldBounds, MovedBoundary(query.args[1], query.args[2])))
          => ~query.ret
    /\ (query # NoQuery /\ query.op = "canSnapVertices"
            /\ ~Inside(worldBounds, Snapped(query.args))) => ~query.ret

\* the geometry of the subtrahend is the receiver's
SubtractedItself ==
    /\ query # NoQuery
    /\ query.op = "subtract"
    /\ query.args.vertices = m_geometry.vertices
    /\ {query.args.faces[i].plane : i \in DOMAIN query.args.faces}
          = {m_geometry.faces[i].plane : i \in DOMAIN m_geometry.faces}

\* C10: subtract of a brush A by a subtrahend whose geometry is identical to
\* A's returns an empty list of brushes.
C10_SubtractItselfIsEmpty == SubtractedItself => query.ret = << >>

\* a brush that an edit has changed is subtracted from itself
C10_Witness == SubtractedItself /\ steps = 1 /\ query.ret = << >>

\* some face plane of one solid has the whole of the other solid on it or in
\* front of it: the two share at most a part of their boundary
Separated(g, h) ==
    \/ \E i \in DOMAIN g.faces : \A v \in h.vertices : PlaneSide(g.faces[i].plane, v) >= 0
    \/ \E i \in DOMAIN h.faces : \A v \in g.vertices : PlaneSide(h.faces[i].plane, v) >= 0

PlanesOf(g) == {g.faces[i].plane : i \in DOMAIN g.faces}

\* subtract was called with a subtrahend that does not intersect the receiver
SubtractedDisjoint ==
    /\ query # NoQuery
    /\ query.op = "subtract"
    /\ Separated(query.pre.m_geometry, query.args)

\* C11: subtract of a brush A by a subtrahend that does not intersect A returns
\* exactly one brush, whose vertex set and face planes equal A's, and A itself
\* is not modified.
C11_SubtractDisjointIsItself ==
    SubtractedDisjoint
        => /\ Len(query.ret) = 1
           /\ query.ret[1].m_geometry.vertices = query.pre.m_geometry.vertices
           /\ PlanesOf(query.ret[1].m_geometry) = PlanesOf(query.pre.m_geometry)
           /\ m_faces = query.pre.m_faces
           /\ m_geometry = query.pre.m_geometry
           /\ heap = query.pre.heap

\* an edited brush had a brush subtracted that lies beside it, and one brush
\* with the receiver's vertices came back
C11_Witness ==
    /\ SubtractedDisjoint
    /\ steps = 1
    /\ Len(query.ret) = 1
    /\ query.ret[1].m_geometry.vertices = m_geometry.vertices

\* the second Brush is a copy of the first and both are as the copy constructor
\* left them
JustCopied == call.op = "Brush(const Brush&)"

\* the faces of the geometry g of the brush named by tag and its face list are
\* bound to each other, and to no face outside the list
BoundTo(tag, faces, g) ==
    /\ \A j \in DOMAIN g.faces :
          /\ g.faces[j].payload \in Range(faces)
          /\ heap[g.faces[j].payload].geometry = GeomPtr(tag, g.faces[j].plane)
    /\ \A i \in DOMAIN faces :
          \E j \in DOMAIN g.faces : g.faces[j].payload = faces[i]

\* C12: copy-constructing a Brush yields a Brush with the same number of faces
\* in the same order, each a distinct clone with equal plane and attributes, and
\* a separate polyhedron whose face payloads point to the clones, never to the
\* original's faces, and whose clones point back to the copied geometry faces;
\* afterwards a mutation or the destruction of either brush leaves the other's
\* faces and geometry unchanged.
C12_CopyIsDeepAndIndependent ==
    /\ JustCopied =>
          /\ Len(other.m_faces) = Len(m_faces)
          /\ \A i \in DOMAIN other.m_faces :
                /\ other.m_faces[i] \notin Range(m_faces)
                /\ other.m_faces[i] \in DOMAIN heap
                /\ heap[other.m_faces[i]].boundary = heap[m_faces[i]].boundary
                /\ heap[other.m_faces[i]].attribs = heap[m_faces[i]].attribs
                /\ \A k \in DOMAIN other.m_faces :
                      other.m_faces[i] = other.m_faces[k] => i = k
          /\ other.m_geometry.vertices = m_geometry.vertices
          /\ PlanesOf(other.m_geometry) = PlanesOf(m_geometry)
          /\ BoundTo("copy", other.m_faces, other.m_geometry)
          /\ SameBrush(pre)
    /\ (other.this = "copy" /\ ~JustCopied /\ call.on = "this") =>
          /\ FaceView(heap, other.m_faces) = FaceView(pre.heap, pre.other.m_faces)
          /\ other.m_geometry = pre.other.m_geometry
          /\ BoundTo("copy", other.m_faces, other.m_geometry)
    /\ (other.this = "copy" /\ ~JustCopied /\ call.on = "other") =>
          /\ SameBrush(pre)
          /\ BoundTo("brush", m_faces, m_geometry)

\* a brush was copied and then destroyed: the copy has all its faces
C12_Witness ==
    /\ other.this = "copy"
    /\ call.op = "~Brush"
    /\ call.on = "this"
    /\ m_faces = << >>
    /\ Len(other.m_faces) = 6
    /\ BoundTo("copy", other.m_faces, other.m_geometry)

\* C13: move-constructing a Brush transfers the face list and the polyhedron to
\* the new Brush without cloning, and leaves the source with an empty face list
\* and no geometry, so that destroying the source deletes none of the
\* transferred faces or geometry.
C13_MoveTransfersOwnership ==
    /\ call.op = "Brush(Brush&&)" =>
          /\ other.m_faces = pre.m_faces
          /\ other.m_geometry = pre.m_geometry
          /\ heap = pre.heap
          /\ m_faces = << >>
          /\ m_geometry.null
    /\ (other.this = "brush" /\ call.op = "~Brush" /\ call.on = "this"
           /\ ~pre.other.m_geometry.null) =>
          /\ heap = pre.heap
          /\ other = pre.other
          /\ \A i \in DOMAIN other.m_faces : other.m_faces[i] \in DOMAIN heap
          /\ ~other.m_geometry.null

\* a brush was moved into a new Brush and then destroyed
C13_Witness ==
    /\ other.this = "brush"
    /\ call.op = "~Brush"
    /\ call.on = "this"
    /\ Len(other.m_faces) = 4
    /\ BoundTo("brush", other.m_faces, other.m_geometry)

\* every coordinate of every vertex of g is a multiple of the grid size
OnGrid(g, snapToF) == \A v \in g.vertices : SnapPosition(v, snapToF) = v

BoundariesOf(h, faces) == {h[faces[i]].boundary : i \in DOMAIN faces \cap {j \in DOMAIN faces : faces[j] \in DOMAIN h}}

\* snapVertices was called on a brush whose vertices were on the grid already
SnappedOnGrid ==
    /\ call.op = "snapVertices"
    /\ OnGrid(pre.m_geometry, call.args)

\* C14: if every vertex coordinate of a valid brush is a multiple of the grid
\* size already, snapVertices leaves the vertex positions, the face planes and
\* the face count unchanged, and so does applying it again.
C14_SnapOnGridChangesNothing ==
    SnappedOnGrid
        => /\ call.threw = NoThrow
           /\ m_geometry.vertices = pre.m_geometry.vertices
           /\ PlanesOf(m_geometry) = PlanesOf(pre.m_geometry)
           /\ Len(m_geometry.faces) = Len(pre.m_geometry.faces)
           /\ Len(m_faces) = Len(pre.m_faces)
           /\ BoundariesOf(heap, m_faces) = BoundariesOf(pre.heap, pre.m_faces)
           /\ OnGrid(m_geometry, call.args)

\* the second of two edits is a snap of a brush that an earlier edit had put on
\* the grid, away from where the brush began
C14_Witness ==
    /\ SnappedOnGrid
    /\ steps = 2
    /\ call.threw = NoThrow
    /\ Bijection
    /\ \A corners \in Catalog : m_geometry.vertices # corners

\* the planes of the faces buildGeometry was called with, in the order in which
\* they are clipped with
BuildOrder ==
    LET sorted == sortFaces(pre.m_faces, pre.heap)
    IN  [i \in DOMAIN sorted |-> GFace(pre.heap[sorted[i]].boundary, nullptr)]

\* what the first k of them leave of the enlarged world box
ClippedBy(k) ==
    ClipAll(BoxGeometry(BoxExpand(worldBounds, 1)), SubSeq(BuildOrder, 1, k))

\* the faces whose clip empties what the faces before them left
EmptyingFaces ==
    {k \in DOMAIN BuildOrder :
        /\ ClippedBy(k - 1).vertices # {}
        /\ ClipType(ClippedBy(k - 1), BuildOrder[k].plane) = "empty"}

\* a face of the solid that all the planes leave lies in the plane of no face
\* of the list
LeavesBoxFace ==
    \E pl \in PlanesOf(ClippedBy(Len(BuildOrder))) :
        \A i \in DOMAIN BuildOrder : BuildOrder[i].plane # pl

\* C15: building geometry from a face list ends in exactly one of four
\* outcomes, decided in this order: empty if some clip empties the geometry
\* (clipping stops at that face, nothing is healed), else invalid if healEdges
\* reports failure, else not fully specified if some geometry face has no
\* payload, else success; the three failures are told apart by what is thrown.
C15_BuildOutcomesInOrder ==
    call.op = "buildGeometry"
        => /\ call.threw =
                 IF EmptyingFaces # {} THEN "Brush is empty"
                 ELSE IF ~heals THEN "Brush is invalid"
                 ELSE IF LeavesBoxFace THEN "Brush is not fully specified"
                 ELSE NoThrow
           /\ \A k \in EmptyingFaces : m_geometry.vertices = ClippedBy(k - 1).vertices
           /\ Cardinality({"Brush is empty", "Brush is invalid",
                           "Brush is not fully specified", NoThrow}) = 4
           /\ call.threw = NoThrow => Bijection

\* healEdges failed on a solid that also keeps a face of the box: the build
\* reports the invalid brush
C15_Witness ==
    /\ call.op = "buildGeometry"
    /\ call.threw = "Brush is invalid"
    /\ ~fullySpecified(m_geometry)
    /\ EmptyingFaces = {}

\* moving every face of a box-shaped solid by delta along its normal leaves no
\* room between two opposite faces
CollapsesUnder(g, delta) ==
    \E axis \in 1..3 : \A u \in g.vertices : \A v \in g.vertices :
        v[axis] * u[4] - u[axis] * v[4] + 2 * delta * u[4] * v[4] <= 0

\* the brush as it was before the query
Queried == BrushState("brush", query.pre.m_faces, query.pre.m_geometry, query.pre.heap)

\* C16: expand returns true only if the rebuilt brush is not empty (its face
\* list is not empty and the rebuild raised no structural error); an expansion
\* by a negative distance that clips the brush away entirely returns false; and
\* canExpand returns the boolean that expand returns.
C16_ExpandReportsNonEmpty ==
    /\ (call.op = "expand" /\ call.ret)
          => /\ m_faces # << >>
             /\ call.threw = NoThrow
             /\ Bijection
             /\ DegeneracyClass(m_geometry.vertices) = "polyhedron"
    /\ (call.op = "expand" /\ CollapsesUnder(pre.m_geometry, call.args[1]))
          => ~call.ret
    /\ (call.op = "expand" /\ m_faces = << >>) => ~call.ret
    /\ (query # NoQuery /\ query.op = "canExpand")
          => query.ret = expand(Queried, worldBounds, query.args[1], query.args[2]).ret

\* an edited brush was expanded by a negative distance that leaves nothing of
\* it, and expand returned false
C16_Witness ==
    /\ call.op = "expand"
    /\ call.args[1] < 0
    /\ CollapsesUnder(pre.m_geometry, call.args[1])
    /\ ~call.ret
    /\ steps = 2


\* a vertex of one of the edges would land where a vertex of the brush that is
\* not moving already is
MergesVertices(g, edgePositions, delta) ==
    \E e \in edgePositions : \E p \in e :
        /\ p \in g.vertices
        /\ PtAdd(p, delta) \in g.vertices \ UNION edgePositions

\* C17: canMoveEdges (canMoveFaces) returns true if and only if the vertex move
\* of the edges' (faces') vertices is feasible without vertex removal and the
\* result has every edge (face) at its translated position; in particular a
\* move that merges a moved vertex with a vertex that stays is rejected.
C17_MergingEdgeMoveIsRejected ==
    (/\ query # NoQuery
     /\ query.op = "canMoveEdges"
     /\ MergesVertices(query.pre.m_geometry, query.args[1], query.args[2]))
        => ~query.ret


\* the matching vertex pairs handed to applyUVLock
LockPairs == call.args

Unmoved == {i \in DOMAIN LockPairs : LockPairs[i][1] = LockPairs[i][2]}

\* the k-th reference pair: the unmoved vertices in their order, then the moved
\* ones in theirs
Reference(k) ==
    LET Before(i, j) == \/ i \in Unmoved /\ j \notin Unmoved
                        \/ (i \in Unmoved <=> j \in Unmoved) /\ i < j
    IN  LockPairs[CHOOSE i \in DOMAIN LockPairs :
                     Cardinality({j \in DOMAIN LockPairs : Before(j, i)}) = k - 1]

\* the three source points of the transform lie on a line: its entries are not
\* finite
NonFinite == Collinear(Reference(1)[1], Reference(2)[1], Reference(3)[1])

\* the sum of the moves of the first three reference vertices
ReferenceShift ==
    LET Along(k) == Dir(Reference(k)[1], Reference(k)[2])
    IN  Along(1)[1] + Along(1)[2] + Along(1)[3] + Along(2)[1] + Along(2)[2] + Along(2)[3]
        + Along(3)[1] + Along(3)[2] + Along(3)[3]

\* the transform takes the face onto a line, and transforming the clone fails
LockFails == Collinear(Reference(1)[2], Reference(2)[2], Reference(3)[2])

\* the attributes of the new face are those of the old one
LockSkipped == heap[2].attribs = pre.heap[1].attribs /\ heap[2] = pre.heap[2]

\* C18 as stated: UV lock is skipped exactly when fewer than 3 reference vertex
\* pairs are available or the solved transform contains a non-finite value.
C18_SkippedExactlyWhenTooFewOrNonFinite ==
    call.op = "applyUVLock" =>
        (~call.ret <=> (Len(LockPairs) < 3 \/ NonFinite))

\* C18, amended: UV lock is skipped exactly when three or more matching vertices
\* are unmoved, or fewer than 3 reference pairs are available, or the solved
\* transform is not finite; otherwise the transform of the first three reference
\* pairs (unmoved first, then moved) is applied to a clone of the old face and
\* its attributes are copied to the new face; a skipped lock and a lock whose
\* transform fails leave the new face as cloned, and nothing is thrown.
C18_UVLockSkippedOrApplied ==
    call.op = "applyUVLock" =>
        /\ ~call.ret <=> \/ Cardinality(Unmoved) >= 3
                         \/ Len(LockPairs) < 3
                         \/ NonFinite
        /\ (call.ret /\ ~LockFails)
              => /\ heap[2].attribs.offset = pre.heap[1].attribs.offset + ReferenceShift
                 /\ heap[2].attribs.textureName = pre.heap[1].attribs.textureName
        /\ (~call.ret \/ LockFails) => LockSkipped
        /\ call.threw = NoThrow
        /\ heap[1] = pre.heap[1]
        /\ heap[2].boundary = pre.heap[2].boundary

\* of four matching vertices two stay and two move, and the lock is applied with
\* the two that stay and the first that moves
C18_Witness ==
    /\ call.op = "applyUVLock"
    /\ Len(LockPairs) = 4
    /\ Cardinality(Unmoved) = 2
    /\ LockPairs[1][1] # LockPairs[1][2]
    /\ call.ret
    /\ ~LockFails
    /\ heap[2].attribs.offset = 1


\* the vertices of the brush that stay where they are
RemainingVertices == m_geometry.vertices \ MovingVertices

\* doCanMoveVertices has come as far as telling the fragments apart: the move is
\* not empty, stays within the world, does not move the whole brush, loses no
\* vertex it must keep, and its result is a polyhedron
ReachesTable ==
    /\ Decided
    /\ ~IsZero(query.args.delta)
    /\ MovingVertices # {}
    /\ RemainingVertices # {}
    /\ Inside(worldBounds, Candidate)
    /\ DegeneracyClass(Candidate) = "polyhedron"
    /\ query.args.allowVertexRemoval
       \/ \A v \in MovingVertices :
             PtAdd(v, query.args.delta) \in PointGeometry(Candidate, FALSE).vertices

\* a 'check' cell whose remaining fragment is a polyhedron
CheckCell == ReachesTable /\ DegeneracyClass(RemainingVertices) = "polyhedron"

\* a 'check' cell whose remaining fragment is a polygon
FlatCheckCell ==
    /\ ReachesTable
    /\ DegeneracyClass(RemainingVertices) = "polygon"
    /\ DegeneracyClass(MovingVertices) \in {"edge", "polygon"}

\* some moving vertex goes from one side of the plane of a face of the remaining
\* polyhedron to the other, and the segment meets the face's polygon
Passes(from, to) ==
    LET planes == HullPlanes(RemainingVertices)
    IN  \E v \in MovingVertices : \E pl \in planes :
            /\ PlaneSide(pl, v) = from
            /\ PlaneSide(pl, PtAdd(v, query.args.delta)) = to
            /\ \A side \in planes :
                  PlaneSide(side, EdgeCut(pl, v, PtAdd(v, query.args.delta))) <= 0

\* some moving vertex goes through the remaining polygon
PassesFlat ==
    LET pl == FlatPlane(RemainingVertices)
    IN  \E v \in MovingVertices :
            /\ PlaneSide(pl, v) * PlaneSide(pl, PtAdd(v, query.args.delta)) < 0
            /\ \A side \in BoundingPlanes(RemainingVertices, "polygon") :
                  PlaneSide(side, EdgeCut(pl, v, PtAdd(v, query.args.delta))) <= 0

\* C19 as stated: in the 'check' cells the move is rejected exactly when some
\* moving vertex crosses the plane of a face of the remaining fragment from in
\* front of it (outside) to behind it (inside) and the ray meets the face.
C19_RejectedWhenEnteringThroughFace ==
    CheckCell => (~query.ret <=> Passes(1, -1))

\* C19, amended: in the 'check' cells the move is rejected exactly when some
\* moving vertex crosses the plane of a face of the remaining fragment from
\* behind it (inside) to in front of it (outside) and the ray along the segment
\* meets the face's polygon; otherwise the move is accepted.  A remaining
\* polygon has one face, and a move that does not go through it is accepted.
C19_RejectedWhenLeavingThroughFace ==
    /\ CheckCell => (~query.ret <=> Passes(-1, 1))
    /\ FlatCheckCell => (~query.ret => PassesFlat)

\* an edge of a polyhedron is moved through the rest of it and out of a face,
\* and the move is rejected
C19_Witness ==
    /\ CheckCell
    /\ Cardinality(MovingVertices) = 2
    /\ Passes(-1, 1)
    /\ ~query.ret


\* C20: when remaining is a point or an edge, or a polygon while moving is a
\* polyhedron, the fragments are swapped, delta is negated and the decision is
\* the one of the transposed cell; in particular a moving polygon with a
\* remaining point is decided like a moving point with a remaining polygon: it
\* is accepted whenever the result is a valid polyhedron, without a sweep.
C20_MovingPolygonRemainingPointIsAccepted ==
    (/\ ReachesTable
     /\ DegeneracyClass(MovingVertices) = "polygon"
     /\ DegeneracyClass(RemainingVertices) = "point")
        => query.ret


\* the cell of the table: the kind of the moving and of the remaining fragment
TableCell == <<DegeneracyClass(MovingVertices), DegeneracyClass(RemainingVertices)>>

\* the two cells the table allows without a sweep
OkCells == {<<"point", "polygon">>, <<"edge", "edge">>}

\* the cells the table says cannot occur
NotApplicable ==
    ({"empty"} \X {"empty", "point", "edge", "polygon"})
    \cup ({"point"} \X {"empty", "point", "edge"})
    \cup ({"edge"} \X {"empty", "point"})
    \cup ({"polygon"} \X {"empty"})

\* the candidate result keeps every moved vertex at position + delta
KeepsMovedVertices ==
    \A v \in MovingVertices :
        PtAdd(v, query.args.delta) \in PointGeometry(Candidate, FALSE).vertices

\* doCanMoveVertices has got past the test that the result is a polyhedron
PastPolyhedronCheck ==
    /\ Decided
    /\ ~IsZero(query.args.delta)
    /\ query.args.vertexPositions # {}
    /\ Inside(worldBounds, Candidate)
    /\ MovingVertices # m_geometry.vertices
    /\ DegeneracyClass(Candidate) = "polyhedron"
    /\ query.args.allowVertexRemoval \/ KeepsMovedVertices

\* C21: for a brush that is a polyhedron and a move (delta not zero) whose moving
\* fragment is a point and whose remaining one is a polygon, or both of which
\* are edges, the move is accepted if and only if the result lies within
\* worldBounds, is a polyhedron and (allowVertexRemoval false) keeps every moved
\* vertex at position + delta, whether or not a vertex goes through the other
\* fragment; and past the polyhedron check no 'n/a' cell of the table occurs.
C21_OkCellsAcceptValidResults ==
    /\ (Decided /\ ~IsZero(query.args.delta) /\ TableCell \in OkCells)
          => (query.ret <=> /\ Inside(worldBounds, Candidate)
                            /\ DegeneracyClass(Candidate) = "polyhedron"
                            /\ query.args.allowVertexRemoval \/ KeepsMovedVertices)
    /\ PastPolyhedronCheck => TableCell \notin NotApplicable

\* a vertex is moved through the polygon of the others, to the other side of
\* it, and the move is accepted
C21_Witness ==
    /\ Decided
    /\ TableCell = <<"point", "polygon">>
    /\ PassesFlat
    /\ ~query.args.allowVertexRemoval
    /\ query.ret


\* the brush as it was before the last edit
Edited == BrushState("brush", pre.m_faces, pre.m_geometry, pre.heap)

\* the edits that commit through doSetNewGeometry
Committing == {"addVertex", "removeVertices", "snapVertices", "moveVertices"}

\* the caller had the edit confirmed as feasible: addVertex, removeVertices and
\* moveVertices are only called so, snapVertices may be called without
WasFeasible ==
    call.op = "snapVertices" => canSnapVertices(Edited, worldBounds, call.args).ret

\* C22: an edit that commits through doSetNewGeometry clones the payloads onto
\* the candidate's faces, then deletes the old faces, then installs the new list
\* and rebuilds; the candidate is validated before any field of the Brush is
\* overwritten, so a structural error raised by the final rebuild does not leave
\* the Brush with its old faces deleted: face list and geometry are as before.
C22_FailedRebuildKeepsOldFaces ==
    (/\ call.op \in Committing
     /\ WasFeasible
     /\ call.threw # NoThrow)
        => SameBrush(pre)


\* the BrushFace objects that are allocated and that neither the face list nor
\* a face of the geometry refers to
Dropped ==
    DOMAIN heap \ (Range(m_faces)
                   \cup {m_geometry.faces[i].payload : i \in DOMAIN m_geometry.faces})

\* C23: every face object handed to the Brush is deleted exactly once: the
\* geometry deletes a payload only through faceWillBeDeleted, the face list
\* deletes the others, and no face leaves the face list without being deleted;
\* so after buildGeometry every face that still exists is in the face list.
C23_NoFaceIsDroppedUndeleted ==
    call.op = "buildGeometry" => Dropped = {}

\* subtract was called with a list of subtrahends
SubtractedList == query # NoQuery /\ query.op = "subtract(subtrahends)"

RECURSIVE Flattened(_)
Flattened(lists) ==
    IF lists = << >> THEN << >> ELSE Head(lists) \o Flattened(Tail(lists))

\* the fragments of g once the first n subtrahends have been taken away, each
\* from every fragment the ones before it left
RECURSIVE FragmentsAfter(_, _, _)
FragmentsAfter(g, subtrahends, n) ==
    IF n = 0 THEN <<g>>
    ELSE LET before == FragmentsAfter(g, subtrahends, n - 1)
         IN  Flattened([i \in DOMAIN before |->
                           PolyhedronSubtract(before[i], subtrahends[n].m_geometry)])

Fragments ==
    FragmentsAfter(query.pre.m_geometry, query.args.subtrahends,
                   Len(query.args.subtrahends))

\* Brush(worldBounds, faces) throws for the faces of the fragment
ConstructionThrows(fragment) ==
    LET Made(made) ==
            Construct("fragment", made.heap, made.addrs, query.args.worldBounds)
    IN  Made(NewAll(<< >>, [i \in DOMAIN fragment.faces |->
                               BrushFace(fragment.faces[i].plane, Attribs(0, 0))])).threw
            # NoThrow

\* the fragments whose Brush can be constructed, in order
KeptFragments == SelectSeq(Fragments, LAMBDA fragment : ~ConstructionThrows(fragment))

\* the two solids have a solid in common
Overlaps(g, h) == DegeneracyClass(ClipAll(g, h.faces).vertices) = "polyhedron"

\* C24: subtract with the subtrahends s1..sn returns one brush for every
\* fragment left after s1 is taken from the receiver's geometry, s2 from every
\* fragment of that, and so on in list order, save the fragments whose Brush
\* construction throws, which are left out while nothing is thrown to the
\* caller; with no subtrahend the one brush has the receiver's geometry; no
\* returned brush overlaps a subtrahend.
C24_SubtractInListOrder ==
    SubtractedList =>
        /\ Len(query.ret) = Len(KeptFragments)
        /\ \A i \in DOMAIN query.ret :
              /\ query.ret[i].threw = NoThrow
              /\ query.ret[i].m_geometry.vertices = KeptFragments[i].vertices
              /\ PlanesOf(query.ret[i].m_geometry) = PlanesOf(KeptFragments[i])
              /\ \A k \in DOMAIN query.args.subtrahends :
                    ~Overlaps(query.ret[i].m_geometry,
                              query.args.subtrahends[k].m_geometry)
        /\ (query.args.subtrahends = << >> /\ query.ret # << >>)
              => /\ Len(query.ret) = 1
                 /\ query.ret[1].m_geometry.vertices = query.pre.m_geometry.vertices
        /\ m_faces = query.pre.m_faces
        /\ m_geometry = query.pre.m_geometry
        /\ heap = query.pre.heap

\* two subtrahends that each cut fragments off were subtracted; some fragments
\* became brushes and one did not fit the world bounds and was left out
C24_Witness ==
    /\ SubtractedList
    /\ Len(query.args.subtrahends) = 2
    /\ Len(FragmentsAfter(query.pre.m_geometry, query.args.subtrahends, 1)) >= 2
    /\ Len(Fragments)
          > Len(FragmentsAfter(query.pre.m_geometry, query.args.subtrahends, 1))
    /\ Len(query.ret) >= 2
    /\ Len(query.ret) < Len(Fragments)

\* the edits that have a feasibility predicate and are made only when it holds
Guarded == {"moveVertices", "addVertex", "removeVertices", "moveBoundary"}

\* the last edit was a transform that canTransform had allowed
TransformWasFeasible ==
    /\ call.op = "transform"
    /\ \E t \in Translations : \E lockTextures \in BOOLEAN :
          /\ canTransform(Edited, t, worldBounds).ret
          /\ LET Same(out) == /\ out.threw = call.threw
                              /\ out.m_geometry = m_geometry
                              /\ FaceView(out.heap, out.m_faces) = FaceView(heap, m_faces)
             IN  Same(transform(Edited, t, lockTextures, worldBounds))

\* the last edit was a snapVertices that canSnapVertices had allowed
SnapWasFeasible ==
    /\ call.op = "snapVertices"
    /\ canSnapVertices(Edited, worldBounds, call.args).ret

\* the brush is valid and fully specified
ValidBrush ==
    /\ ~m_geometry.null
    /\ DegeneracyClass(m_geometry.vertices) = "polyhedron"
    /\ fullySpecified(m_geometry)
    /\ Len(m_faces) = Len(m_geometry.faces)

\* C25: when the feasibility predicate of an edit (canMoveVertices,
\* canAddVertex, canRemoveVertices, canSnapVertices, canMoveBoundary,
\* canTransform) returned true for a valid brush, the edit called next with
\* the same arguments throws nothing and leaves a valid, fully specified brush.
C25_FeasibleEditsSucceed ==
    (call.op \in Guarded \/ SnapWasFeasible \/ TransformWasFeasible)
        => call.threw = NoThrow /\ ValidBrush

====
